---- MODULE Spec2Model ----
(***************************************************************************)
(* A model of the musicdb reader of musicdb_parser: the section walker of  *)
(* src/musicdb/parsing.py (parse_library's section loop, _parse_hsma, the  *)
(* list and item sub-parsers, _parse_boma and its handlers), the typed     *)
(* values of src/musicdb/parsing_types.py and the view layer of            *)
(* src/musicdb/library.py.                                                 *)
(*                                                                         *)
(* The decompressed buffer is not held byte by byte: the parser's cursor   *)
(* (BufferReader.pos) and the buffer's length are, and each read draws the *)
(* fields it decodes from a bounded set.  Every drawn length covers the    *)
(* bytes its block reads, so blocks never overlap and every run of the     *)
(* model is the parse of some real buffer.  Python semantics are those of  *)
(* CPython 3.12 or later (`value in IntEnumClass` tests the values).       *)
(*                                                                         *)
(* Further specifications over the same variables model the outer header  *)
(* of both parse_library functions with src/utils.py's itlp_decrypt        *)
(* (SpecOuter), the BufferReader on its own (SpecReader), the itl block    *)
(* walker of src/itl/parsing.py (SpecItl), the view functions on a drawn   *)
(* raw library (SpecView), the track numerics (SpecNumerics) and the float *)
(* arithmetic of the star rating (SpecStars).                              *)
(***************************************************************************)
EXTENDS Integers, Sequences, FiniteSets, TLC

\* ---------------------------------------------------------------- bounds
\* granularity (bytes) of the lengths the inputs declare
Unit == 48
\* the decompressed buffer holds at most MaxBufUnits * Unit bytes
MaxBufUnits == 6
\* the buffer holds at most MaxSections hsma sections
MaxSections == 2
\* child counts (num_itma, num_lpma, num_iama, num_boma) are drawn from 0..MaxCount
MaxCount == 2

\* the units by which a drawn length exceeds the bytes its block reads
DrawnPads == {0, 1}
\* the persistent track ids drawn for playlist members
DrawnTrackIds == {1, 2}

\* ------------------------------------------------------- Python values
\* None, and a present value v, of an `X | None`
None == <<>>
Some(v) == <<v>>
IsNone(o) == o = <<>>
Val(o) == o[1]

\* a str is the sequence of its characters
EmptyStr == <<>>

Min(a, b) == IF a <= b THEN a ELSE b
Max(a, b) == IF a >= b THEN a ELSE b

\* class SectionType(IntEnum), parsing_types.py:38
SectionType ==
  { [enum |-> "SectionType", name |-> <<"I","T","M","A","_","T","R","A","C","K","_","M","A","S","T","E","R">>, value |-> 1],
    [enum |-> "SectionType", name |-> <<"L","P","M","A","_","P","L","A","Y","L","I","S","T","_","M","A","S","T","E","R">>, value |-> 2],
    [enum |-> "SectionType", name |-> <<"H","F","M","A","_","I","N","N","E","R","_","M","A","S","T","E","R">>, value |-> 3],
    [enum |-> "SectionType", name |-> <<"L","A","M","A","_","A","L","B","U","M","_","D","A","T","A">>, value |-> 4],
    [enum |-> "SectionType", name |-> <<"L","A","M","A","_","A","R","T","I","S","T","_","D","A","T","A">>, value |-> 5],
    [enum |-> "SectionType", name |-> <<"P","L","M","A","_","L","I","B","R","A","R","Y","_","M","A","S","T","E","R">>, value |-> 6],
    [enum |-> "SectionType", name |-> <<"L","P","M","A","_","U","N","K">>, value |-> 17] }

\* class BomaWideCharType(IntEnum), parsing_types.py:51
BomaWideCharType ==
  { [enum |-> "BomaWideCharType", name |-> <<"T","R","A","C","K","_","T","I","T","L","E">>, value |-> 2],
    [enum |-> "BomaWideCharType", name |-> <<"A","L","B","U","M">>, value |-> 3],
    [enum |-> "BomaWideCharType", name |-> <<"A","R","T","I","S","T">>, value |-> 4],
    [enum |-> "BomaWideCharType", name |-> <<"G","E","N","R","E">>, value |-> 5],
    [enum |-> "BomaWideCharType", name |-> <<"K","I","N","D">>, value |-> 6],
    [enum |-> "BomaWideCharType", name |-> <<"C","O","M","M","E","N","T">>, value |-> 8],
    [enum |-> "BomaWideCharType", name |-> <<"C","O","M","P","O","S","E","R">>, value |-> 12],
    [enum |-> "BomaWideCharType", name |-> <<"G","R","O","U","P","I","N","G","_","C","L","A","S","S","I","C","A","L">>, value |-> 14],
    [enum |-> "BomaWideCharType", name |-> <<"E","P","I","S","O","D","E","_","C","O","M","M","E","N","T">>, value |-> 18],
    [enum |-> "BomaWideCharType", name |-> <<"E","P","I","S","O","D","E","_","S","Y","N","O","P","S","I","S">>, value |-> 22],
    [enum |-> "BomaWideCharType", name |-> <<"S","E","R","I","E","S","_","T","I","T","L","E">>, value |-> 24],
    [enum |-> "BomaWideCharType", name |-> <<"E","P","I","S","O","D","E","_","N","U","M","B","E","R">>, value |-> 25],
    [enum |-> "BomaWideCharType", name |-> <<"A","L","B","U","M","_","A","R","T","I","S","T">>, value |-> 27],
    [enum |-> "BomaWideCharType", name |-> <<"S","E","R","I","E","S","_","U","N","K","N","O","W","N">>, value |-> 28],
    [enum |-> "BomaWideCharType", name |-> <<"S","O","R","T","_","O","R","D","E","R","_","T","R","A","C","K","_","N","A","M","E">>, value |-> 30],
    [enum |-> "BomaWideCharType", name |-> <<"S","O","R","T","_","O","R","D","E","R","_","A","L","B","U","M">>, value |-> 31],
    [enum |-> "BomaWideCharType", name |-> <<"S","O","R","T","_","O","R","D","E","R","_","A","R","T","I","S","T">>, value |-> 32],
    [enum |-> "BomaWideCharType", name |-> <<"S","O","R","T","_","O","R","D","E","R","_","A","L","B","U","M","_","A","R","T","I","S","T">>, value |-> 33],
    [enum |-> "BomaWideCharType", name |-> <<"S","O","R","T","_","O","R","D","E","R","_","C","O","M","P","O","S","E","R">>, value |-> 34],
    [enum |-> "BomaWideCharType", name |-> <<"L","I","C","E","N","S","O","R","_","C","O","P","Y","R","I","G","H","T">>, value |-> 43],
    [enum |-> "BomaWideCharType", name |-> <<"U","N","K","N","O","W","N","_","0","0","2","E">>, value |-> 46],
    [enum |-> "BomaWideCharType", name |-> <<"S","E","R","I","E","S","_","S","Y","N","O","P","S","I","S">>, value |-> 51],
    [enum |-> "BomaWideCharType", name |-> <<"F","L","A","V","O","R","_","S","T","R","I","N","G">>, value |-> 52],
    [enum |-> "BomaWideCharType", name |-> <<"E","M","A","I","L","_","P","U","R","C","H","A","S","E","R">>, value |-> 59],
    [enum |-> "BomaWideCharType", name |-> <<"N","A","M","E","_","P","U","R","C","H","A","S","E","R">>, value |-> 60],
    [enum |-> "BomaWideCharType", name |-> <<"W","O","R","K","_","N","A","M","E">>, value |-> 63],
    [enum |-> "BomaWideCharType", name |-> <<"M","O","V","E","M","E","N","T","_","N","A","M","E">>, value |-> 64],
    [enum |-> "BomaWideCharType", name |-> <<"F","I","L","E","_","P","A","T","H">>, value |-> 67],
    [enum |-> "BomaWideCharType", name |-> <<"P","L","A","Y","L","I","S","T","_","N","A","M","E">>, value |-> 200],
    [enum |-> "BomaWideCharType", name |-> <<"I","A","M","A","_","A","L","B","U","M">>, value |-> 300],
    [enum |-> "BomaWideCharType", name |-> <<"I","A","M","A","_","A","L","B","U","M","_","A","R","T","I","S","T","_","1">>, value |-> 301],
    [enum |-> "BomaWideCharType", name |-> <<"I","A","M","A","_","A","L","B","U","M","_","A","R","T","I","S","T","_","2">>, value |-> 302],
    [enum |-> "BomaWideCharType", name |-> <<"I","A","M","A","_","A","R","T","I","S","T","_","1">>, value |-> 400],
    [enum |-> "BomaWideCharType", name |-> <<"I","A","M","A","_","A","R","T","I","S","T","_","2">>, value |-> 401],
    [enum |-> "BomaWideCharType", name |-> <<"S","E","R","I","E","S","_","T","I","T","L","E","_","A","L","T">>, value |-> 303],
    [enum |-> "BomaWideCharType", name |-> <<"H","E","X","_","S","T","R","I","N","G","_","6","4","X","4","B","_","1">>, value |-> 500],
    [enum |-> "BomaWideCharType", name |-> <<"M","A","N","A","G","E","D","_","M","E","D","I","A","_","F","O","L","D","E","R">>, value |-> 504],
    [enum |-> "BomaWideCharType", name |-> <<"H","E","X","_","S","T","R","I","N","G","_","6","4","X","4","B","_","2">>, value |-> 510],
    [enum |-> "BomaWideCharType", name |-> <<"S","O","N","G","_","T","I","T","L","E","_","M","U","S","I","C","D","B">>, value |-> 702],
    [enum |-> "BomaWideCharType", name |-> <<"S","O","N","G","_","A","R","T","I","S","T","_","M","U","S","I","C","D","B">>, value |-> 703] }

\* class BomaUtf8Short(IntEnum), parsing_types.py:94
BomaUtf8Short ==
  { [enum |-> "BomaUtf8Short", name |-> <<"X","L","M","_","B","L","O","C","K","_","1">>, value |-> 54],
    [enum |-> "BomaUtf8Short", name |-> <<"X","L","M","_","B","L","O","C","K","_","2">>, value |-> 56],
    [enum |-> "BomaUtf8Short", name |-> <<"X","L","M","_","A","R","T","W","O","R","K">>, value |-> 402] }

\* class BomaUtf8Long(IntEnum), parsing_types.py:100
BomaUtf8Long ==
  { [enum |-> "BomaUtf8Long", name |-> <<"F","I","L","E","_","U","R","L">>, value |-> 11],
    [enum |-> "BomaUtf8Long", name |-> <<"X","L","M","_","B","L","O","C","K","_","1">>, value |-> 29],
    [enum |-> "BomaUtf8Long", name |-> <<"X","L","M","_","B","L","O","C","K","_","3">>, value |-> 700],
    [enum |-> "BomaUtf8Long", name |-> <<"X","L","M","_","B","L","O","C","K","_","4">>, value |-> 972] }

\* class BomaBookType(IntEnum), parsing_types.py:109
BomaBookType ==
  { [enum |-> "BomaBookType", name |-> <<"B","O","O","K","1">>, value |-> 66] }

\* class BomaTrackNumericsType(IntEnum), parsing_types.py:118
BomaTrackNumericsType ==
  { [enum |-> "BomaTrackNumericsType", name |-> <<"T","R","A","C","K","_","N","U","M","E","R","I","C","S","_","1">>, value |-> 1],
    [enum |-> "BomaTrackNumericsType", name |-> <<"T","R","A","C","K","_","N","U","M","E","R","I","C","S","_","2">>, value |-> 23] }

\* class BomaOtherType(IntEnum), parsing_types.py:123
BomaOtherType ==
  { [enum |-> "BomaOtherType", name |-> <<"V","I","D","E","O">>, value |-> 36] }

\* class BomaPlaylistType(IntEnum), parsing_types.py:126
BomaPlaylistType ==
  { [enum |-> "BomaPlaylistType", name |-> <<"I","P","F","A","_","P","L","A","Y","L","I","S","T">>, value |-> 206],
    [enum |-> "BomaPlaylistType", name |-> <<"S","L","S","T","_","S","M","A","R","T","_","P","L","A","Y","L","I","S","T">>, value |-> 201] }

\* the member of enumeration E with value v (E(v) in Python); HasValue is `v in E`
HasValue(E, v) == \E m \in E : m.value = v
Member(E, v) == CHOOSE m \in E : m.value = v
\* getattr(E, n): a class attribute lookup raises AttributeError unless E has member n
HasAttr(E, n) == \E m \in E : m.name = n
Attr(E, n) == CHOOSE m \in E : m.name = n

N_IPFA_PLAYLIST == <<"I","P","F","A","_","P","L","A","Y","L","I","S","T">>
N_VIDEO == <<"V","I","D","E","O">>
N_TRACK_NUMERICS_1 == <<"T","R","A","C","K","_","N","U","M","E","R","I","C","S","_","1">>
N_TRACK_NUMERICS_2 == <<"T","R","A","C","K","_","N","U","M","E","R","I","C","S","_","2">>
N_PLAYLIST_NAME == <<"P","L","A","Y","L","I","S","T","_","N","A","M","E">>
N_MANAGED_MEDIA_FOLDER == <<"M","A","N","A","G","E","D","_","M","E","D","I","A","_","F","O","L","D","E","R">>

\* struct.calcsize of the formats the parser unpacks
Size_4sIII == 16
Size_4sII == 12
Size_4sI == 8
Size_II == 8
Size_I == 4
Size_Q == 8

\* ------------------------------------------------------- BufferReader
\* len(data[a:b]) for a buffer of n bytes: Python clamps a slice, and counts a
\* negative index from the end
SliceIndex(n, i) == IF i < 0 THEN Max(n + i, 0) ELSE Min(i, n)
SliceLen(n, a, b) == Max(SliceIndex(n, b) - SliceIndex(n, a), 0)
\* struct.unpack(format, data[p : p + size]) raises struct.error unless the slice
\* holds exactly `size` bytes
CanUnpack(n, p, size) == SliceLen(n, p, p + size) = size

\* --------------------------------------------------------------- state
VARIABLES
  bufLen,     \* len(decompressed_buffer)
  tz_offset,  \* RawLibrary.tz_offset, from the outer header
  outer,      \* the library file parse_library was given: the dialect, the key, the
              \* outer header fields, and the stages of parse_library that have run
  itemHdr,    \* the header of the item being parsed: the cursor it was read at and
              \* the lengths it declares (locals of the item parser)
  pos,        \* reader.pos
  pc,         \* where the parse stands: "sections", "list", "items", "bomas",
              \* "hsma_end", "done" (parse_library returned), "raised"
  err,        \* the exception that ended the parse, "" if none
  hsma,       \* the fields of the hsma header whose section is being parsed
  sections,   \* parse_library's `sections`
  sub,        \* the list the running sub-parser is building (itmas, lpmas, iamas, bomas)
  itemsLeft,  \* iterations left in the sub-parser's `for _ in range(num_...)`
  cur,        \* the item being parsed: an ItmaTrack, an LpmaPlaylist, an iama's bomas
  bomasLeft,  \* iterations left in the item's `for _ in range(num_boma)`
  onDisk,     \* the boma children read so far for the current item, as drawn
  view        \* the last view-layer call: its operation, exception and result

vars ==
  <<bufLen, tz_offset, itemHdr, outer, pos, pc, err, hsma, sections, sub, itemsLeft, cur,
    bomasLeft, onDisk, view>>

\* no library file: the state stands after parse_library's decompression
NoOuter == [dialect |-> "", stages |-> <<>>]

\* no item header has been read
NoItemHeader == [start |-> 0, section_len |-> 0, sections_len |-> 0]


Units(k) == k * Unit
CeilUnits(n) == (n + Unit - 1) \div Unit

\* --------------------------------------------- typed values (dataclasses)
\* parsing_types.BomaDataContainer
BomaDataContainer(t, v) == [type |-> t, value |-> v]

\* parsing_types.ItmaTrack with its defaults
ItmaTrack(pid, tid, starred, rating, unchecked) ==
  [ kind |-> "ItmaTrack", persistent_id |-> pid, id |-> tid, starred |-> starred,
    rating |-> rating, unchecked |-> unchecked,
    bitrate |-> None, date_added |-> None, date_modified |-> None,
    normalization |-> None, song_time_ms |-> None, file_size |-> None,
    date_last_played |-> None, play_count |-> None,
    bomas |-> <<>> ]

\* parsing_types.LpmaPlaylist with its defaults
LpmaPlaylist(pid, created, modified, n) ==
  [ kind |-> "LpmaPlaylist", persistent_id |-> pid, date_created |-> created,
    date_modified |-> modified, num_tracks |-> n, is_smart |-> FALSE,
    is_folder |-> FALSE, persistent_track_ids |-> <<>>, bomas |-> <<>> ]

\* the list _parse_iama_item builds, with the end position it must reach
IamaItem(end) == [kind |-> "iama", bomas |-> <<>>, expected_end_pos |-> end]

\* the list _parse_plma_library builds
PlmaList == [kind |-> "plma", bomas |-> <<>>]

\* parsing_types.Hsma
Hsma(t, s) == [section_type |-> t, sub_section |-> s]

\* ------------------------------------------- _parse_boma_track_numerics
\* _set_if_unset: the field is written only while it is None
SetIfUnset(track, field_name, v) ==
  IF IsNone(track[field_name]) THEN [track EXCEPT ![field_name] = Some(v)] ELSE track

\* the u32 fields of Track numerics 1, in the order the code reads them
Numerics1Fields ==
  << [name |-> "bitrate", offset |-> 108], [name |-> "date_added", offset |-> 112],
     [name |-> "date_modified", offset |-> 148], [name |-> "normalization", offset |-> 152],
     [name |-> "song_time_ms", offset |-> 176], [name |-> "file_size", offset |-> 316] >>

RECURSIVE SetNumerics1(_, _, _, _, _)
\* read_uint32(offset) then _set_if_unset, field by field from the i-th on; a short
\* read raises struct.error with the earlier fields already written.
\* n: the values stored at the offsets; blen, p: the buffer's length and the cursor
SetNumerics1(track, n, blen, p, i) ==
  IF i > Len(Numerics1Fields) THEN [raised |-> "", track |-> track]
  ELSE LET f == Numerics1Fields[i] IN
       IF ~CanUnpack(blen, p + f.offset, Size_I)
       THEN [raised |-> "struct.error", track |-> track]
       ELSE SetNumerics1(SetIfUnset(track, f.name, n[f.name]), n, blen, p, i + 1)

ParseBomaTrackNumerics(track, boma_subtype, n, blen, p) ==
  IF boma_subtype = Attr(BomaTrackNumericsType, N_TRACK_NUMERICS_1).value
  THEN SetNumerics1(track, n, blen, p, 1)
  ELSE IF boma_subtype = Attr(BomaTrackNumericsType, N_TRACK_NUMERICS_2).value
  THEN IF ~CanUnpack(blen, p + 32, Size_I) THEN [raised |-> "struct.error", track |-> track]
       ELSE LET t1 == SetIfUnset(track, "play_count", n.play_count) IN
            IF n.play_count > 0
            THEN IF ~CanUnpack(blen, p + 28, Size_I) THEN [raised |-> "struct.error", track |-> t1]
                 ELSE [raised |-> "", track |-> SetIfUnset(t1, "date_last_played", n.date_last_played)]
            ELSE [raised |-> "", track |-> t1]
  ELSE [raised |-> "", track |-> track]

\* ---------------------------------------------------------- _parse_boma
\* bytes.decode(codec, 'replace') of the first `got` bytes of the stored text, whose
\* characters take `width` bytes each: a cut character decodes to U+FFFD
Decode(text, width, got) ==
  LET whole == Min(got \div width, Len(text)) IN
  IF got % width = 0 \/ whole = Len(text) THEN SubSeq(text, 1, whole)
  ELSE Append(SubSeq(text, 1, whole), "U+FFFD")

Digit(d) == <<"0", "1", "2", "3", "4", "5", "6", "7", "8", "9">>[d + 1]

RECURSIVE ToStr(_)
\* str(n) of a natural number
ToStr(n) == IF n < 10 THEN <<Digit(n)>> ELSE ToStr(n \div 10) \o <<Digit(n % 10)>>

\* f'{vertical}x{horizontal} ({fps} fps)'
VideoText(v, h, fps) ==
  ToStr(v) \o <<"x">> \o ToStr(h) \o <<" ", "(">> \o ToStr(fps) \o <<" ", "f", "p", "s", ")">>

\* _parse_boma_ipfa_playlist: the ipfa signature at 20, the track id at 40
ParseBomaIpfaPlaylist(lpma_playlist, b, blen, p) ==
  IF ~CanUnpack(blen, p + 20, Size_4sI) THEN [raised |-> "struct.error", target |-> lpma_playlist]
  ELSE IF b.signature # "ipfa" THEN [raised |-> "ValueError: signature", target |-> lpma_playlist]
  ELSE IF ~CanUnpack(blen, p + 40, Size_Q) THEN [raised |-> "struct.error", target |-> lpma_playlist]
  ELSE [ raised |-> "",
         target |-> [lpma_playlist EXCEPT
                       !.persistent_track_ids = Append(@, b.track_id)] ]

\* _parse_boma(reader, **kwargs), on the drawn fields b of the container at cursor p
\* in a buffer of blen bytes.  kw names the keyword argument the caller passes
\* ("itma_track", "lpma_playlist" or "" for none) and target is the object passed.
\* The result: the exception raised ("" if none), the container returned, the target
\* as the handlers left it, and the cursor.
ParseBoma(b, kw, target, blen, p) ==
  LET boma_subtype == b.boma_subtype
      section_len == b.section_len
      raise(e, t) == [raised |-> e, container |-> None, target |-> t, pos |-> p]
      return(c, t) == [raised |-> "", container |-> c, target |-> t, pos |-> p + section_len]
  IN
  IF ~CanUnpack(blen, p, Size_4sIII) THEN raise("struct.error", target)
  ELSE IF b.header # "boma" THEN raise("ValueError: signature", target)
  ELSE IF HasValue(BomaWideCharType, boma_subtype)
  THEN IF ~CanUnpack(blen, p + 24, Size_I) THEN raise("struct.error", target)
       ELSE return(Some(BomaDataContainer(
                     Member(BomaWideCharType, boma_subtype),
                     Some(Decode(b.text, 2, SliceLen(blen, p + 36, p + 36 + b.string_len))))),
                   target)
  ELSE IF HasValue(BomaUtf8Short, boma_subtype)
  THEN return(Some(BomaDataContainer(
                Member(BomaUtf8Short, boma_subtype),
                Some(Decode(b.text, 1, SliceLen(blen, p + 20, p + 20 + (section_len - 20)))))),
              target)
  ELSE IF HasValue(BomaUtf8Long, boma_subtype)
  THEN IF ~CanUnpack(blen, p + 24, Size_I) THEN raise("struct.error", target)
       ELSE return(Some(BomaDataContainer(
                     Member(BomaUtf8Long, boma_subtype),
                     Some(Decode(b.text, 1, SliceLen(blen, p + 36, p + 36 + b.string_len))))),
                   target)
  ELSE IF HasValue(BomaBookType, boma_subtype)
  THEN IF SliceLen(blen, p + 20, p + 24) # 4 \/ b.signature # "book"
       THEN raise("ValueError: signature", target)
       ELSE return(Some(BomaDataContainer(Member(BomaBookType, boma_subtype), None)), target)
  \* `parsing_types.BomaOtherType.IPFA_PLAYLIST` is evaluated for every subtype that
  \* reaches this test
  ELSE IF ~HasAttr(BomaOtherType, N_IPFA_PLAYLIST) THEN raise("AttributeError", target)
  ELSE IF boma_subtype = Attr(BomaOtherType, N_IPFA_PLAYLIST).value
  THEN IF kw # "lpma_playlist" THEN raise("TypeError", target)
       ELSE LET r == ParseBomaIpfaPlaylist(target, b, blen, p) IN
            IF r.raised # "" THEN raise(r.raised, r.target) ELSE return(None, r.target)
  ELSE IF ~HasAttr(BomaOtherType, N_VIDEO) THEN raise("AttributeError", target)
  ELSE IF boma_subtype = Attr(BomaOtherType, N_VIDEO).value
  THEN IF ~CanUnpack(blen, p + 20, Size_II) \/ ~CanUnpack(blen, p + 68, Size_I)
       THEN raise("struct.error", target)
       ELSE return(Some(BomaDataContainer(
                     Attr(BomaOtherType, N_VIDEO),
                     Some(VideoText(b.video.vertical, b.video.horizontal, b.video.fps)))),
                   target)
  ELSE IF HasValue(BomaTrackNumericsType, boma_subtype)
  THEN IF kw # "itma_track" THEN raise("TypeError", target)
       ELSE LET r == ParseBomaTrackNumerics(target, boma_subtype, b.numerics, blen, p) IN
            IF r.raised # "" THEN raise(r.raised, r.track) ELSE return(None, r.track)
  ELSE return(None, target)

\* ------------------------------------------------------ the drawn inputs
\* the subtype tags drawn for the boma children of each kind of parent: of every
\* table of parsing_types some members, and one tag (0x133) that is in no table
DrawnSubtypes(kind) ==
  IF kind = "ItmaTrack" THEN {2, 54, 66, 1, 23, 36, 307}
  ELSE IF kind = "LpmaPlaylist" THEN {200, 206, 201, 307}
  ELSE IF kind = "iama" THEN {300, 307}
  ELSE {504, 307}

\* the strings stored in the drawn string containers
DrawnTexts(boma_subtype) == {EmptyStr, <<"A">>}

ZeroNumerics ==
  [ bitrate |-> 0, date_added |-> 0, date_modified |-> 0, normalization |-> 0,
    song_time_ms |-> 0, file_size |-> 0, play_count |-> 0, date_last_played |-> 0 ]

BlankBoma ==
  [ header |-> "boma", section_len |-> 0, boma_subtype |-> 0, string_len |-> 0,
    text |-> EmptyStr, signature |-> "", track_id |-> 0,
    video |-> [vertical |-> 0, horizontal |-> 0, fps |-> 0], numerics |-> ZeroNumerics ]

\* the last byte a container of this subtype reads, past which its section extends
BomaExtent(boma_subtype, string_len) ==
  IF HasValue(BomaWideCharType, boma_subtype) \/ HasValue(BomaUtf8Long, boma_subtype)
  THEN 36 + string_len
  ELSE IF HasValue(BomaUtf8Short, boma_subtype) THEN 20
  ELSE IF HasValue(BomaBookType, boma_subtype) THEN 24
  ELSE IF boma_subtype = 206 THEN 48
  ELSE IF boma_subtype = 36 THEN 72
  ELSE IF boma_subtype = 1 THEN 320
  ELSE IF boma_subtype = 23 THEN 36
  ELSE Size_4sIII

\* the containers drawn with subtype st: the section ends with the unit that holds
\* the last byte read, or (UTF-8-short, whose text is the rest of the section) later
DrawnBomasOf(st) ==
  IF HasValue(BomaWideCharType, st) \/ HasValue(BomaUtf8Long, st)
  THEN LET width == IF HasValue(BomaWideCharType, st) THEN 2 ELSE 1 IN
       { [BlankBoma EXCEPT !.boma_subtype = st, !.text = t, !.string_len = width * Len(t),
                           !.section_len = Units(CeilUnits(BomaExtent(st, width * Len(t))))]
         : t \in DrawnTexts(st) }
  ELSE IF HasValue(BomaUtf8Short, st)
  THEN { [BlankBoma EXCEPT !.boma_subtype = st,
                           !.section_len = Units(CeilUnits(BomaExtent(st, 0)) + pad),
                           !.text = [i \in 1..(Units(CeilUnits(BomaExtent(st, 0)) + pad) - 20) |-> "x"]]
         : pad \in DrawnPads }
  ELSE IF HasValue(BomaBookType, st)
  THEN { [BlankBoma EXCEPT !.boma_subtype = st, !.signature = sig,
                           !.section_len = Units(CeilUnits(BomaExtent(st, 0)))]
         : sig \in {"book", "xxxx"} }
  ELSE IF st = 206
  THEN { [BlankBoma EXCEPT !.boma_subtype = st, !.signature = "ipfa", !.track_id = id,
                           !.section_len = Units(CeilUnits(BomaExtent(st, 0)))]
         : id \in DrawnTrackIds }
  ELSE { [BlankBoma EXCEPT !.boma_subtype = st,
                           !.section_len = Units(CeilUnits(BomaExtent(st, 0)))] }

\* the containers drawn as the next child of a parent of this kind: the drawn
\* subtypes, and one container whose signature is not `boma`
DrawnBomas(kind) ==
  {[BlankBoma EXCEPT !.header = "xxxx"]}
    \cup UNION { DrawnBomasOf(st) : st \in DrawnSubtypes(kind) }

\* section types drawn for an hsma header: the members of SectionType and 7
DrawnSectionTypes == {m.value : m \in SectionType} \cup {7}

\* the hsma headers drawn at cursor p: the payload starts past the 16 header bytes,
\* a skipped section (types 3 and 17) does not end before its payload; `inner` is the
\* signature an inner master (type 3) holds at its payload
DrawnHsmas(p) ==
  {[header |-> "xxxx", next_section_offset |-> 0, section_len |-> 0, section_type |-> 0,
    inner |-> "hfma"]}
    \cup
  { h \in [ header : {"hsma"}, inner : {"hfma", "xxxx"},
            next_section_offset : {Units(CeilUnits(Size_4sIII) + pad) : pad \in DrawnPads},
            section_len : {Units(k) : k \in 0..MaxBufUnits},
            section_type : DrawnSectionTypes ] :
      /\ h.section_type = 17 => h.section_len >= h.next_section_offset
      /\ h.section_type = 3 => h.section_len >= h.next_section_offset + Unit
      /\ h.section_type # 3 => h.inner = "hfma"
      /\ p + h.section_len <= bufLen + Unit }

\* SectionType values the section walker dispatches on
ITMA_TRACK_MASTER == 1
LPMA_PLAYLIST_MASTER == 2
HFMA_INNER_MASTER == 3
LAMA_ALBUM_DATA == 4
LAMA_ARTIST_DATA == 5
PLMA_LIBRARY_MASTER == 6
LPMA_UNK == 17

\* section types whose sub-parser reads a list header and then its children
Composite ==
  {ITMA_TRACK_MASTER, LPMA_PLAYLIST_MASTER, LAMA_ALBUM_DATA, LAMA_ARTIST_DATA,
   PLMA_LIBRARY_MASTER}

\* SectionSignature of the list header, and of the items, of a composite section
ListSignature(section_type) ==
  CASE section_type = ITMA_TRACK_MASTER -> "ltma"
    [] section_type = LPMA_PLAYLIST_MASTER -> "lPma"
    [] section_type = LAMA_ALBUM_DATA -> "lama"
    [] section_type = LAMA_ARTIST_DATA -> "lAma"
    [] section_type = PLMA_LIBRARY_MASTER -> "plma"

ItemSignature(section_type) ==
  CASE section_type = ITMA_TRACK_MASTER -> "itma"
    [] section_type = LPMA_PLAYLIST_MASTER -> "lpma"
    [] section_type = LAMA_ALBUM_DATA -> "iama"
    [] section_type = LAMA_ARTIST_DATA -> "iAma"

\* the list headers (ltma, lPma, lama, lAma, plma) drawn for a section
DrawnLists(section_type) ==
  {[header |-> "xxxx", section_len |-> 0, num |-> 0]}
    \cup { [header |-> ListSignature(section_type),
            section_len |-> Units(CeilUnits(Size_4sII)), num |-> n] : n \in 0..MaxCount }

\* values drawn for the item fields no length or count depends on
DrawnItemIds == {1}
DrawnStarred == {2}
DrawnRatings == {80}
DrawnUnchecked == {0}
DrawnDates == {0}
DrawnNumTracks == {0}
DrawnTzOffsets == {0}

BlankItem ==
  [ header |-> "xxxx", section_len |-> 0, sections_len |-> 0, num_boma |-> 0,
    persistent_id |-> 0, id |-> 0, unchecked |-> 0, starred_val |-> 0, rating |-> 0,
    date_created |-> 0, date_modified |-> 0, num_tracks |-> 0 ]

\* the bytes drawn behind an item's header, in units, for the total length the
\* header of an itma or lpma declares
DrawnBodyUnits == {0, 1}

\* the item headers (itma, lpma, iama, iAma) drawn at cursor p; an item's header
\* length covers the fields read from it (itma to byte 66, lpma to byte 142), and
\* its third field is the total length of the item with its children
DrawnItems(section_type, p) ==
  {BlankItem} \cup
  IF section_type = ITMA_TRACK_MASTER
  THEN { [BlankItem EXCEPT !.header = "itma", !.section_len = Units(CeilUnits(66)),
                           !.sections_len = Units(CeilUnits(66) + k),
                           !.num_boma = n, !.persistent_id = id, !.id = id,
                           !.unchecked = u, !.starred_val = s, !.rating = r]
         : n \in 0..MaxCount, id \in DrawnItemIds, u \in DrawnUnchecked,
           s \in DrawnStarred, r \in DrawnRatings, k \in DrawnBodyUnits }
  ELSE IF section_type = LPMA_PLAYLIST_MASTER
  THEN { [BlankItem EXCEPT !.header = "lpma", !.section_len = Units(CeilUnits(142)),
                           !.sections_len = Units(CeilUnits(142) + k),
                           !.num_boma = n, !.persistent_id = id,
                           !.date_created = c, !.date_modified = m, !.num_tracks = t]
         : n \in 0..MaxCount, id \in DrawnItemIds, c \in DrawnDates, m \in DrawnDates,
           t \in DrawnNumTracks, k \in DrawnBodyUnits }
  ELSE { [BlankItem EXCEPT !.header = ItemSignature(section_type),
                           !.section_len = Units(CeilUnits(Size_4sIII)),
                           !.sections_len = Units(k), !.num_boma = n]
         : n \in 0..MaxCount,
           k \in {j \in 1..MaxBufUnits : p + Units(j) <= bufLen + Unit} }

\* ------------------------------------------------------------- the parse
NoHsma ==
  [ start |-> 0, section_type |-> 0, section_len |-> 0, next_section_offset |-> 0,
    expected_end_pos |-> 0, sub_section |-> None ]
NoItem == [kind |-> "", bomas |-> <<>>]
NoView == [op |-> "", flag |-> FALSE, debug |-> TRUE, raised |-> "", result |-> <<>>]

Init ==
  /\ bufLen \in {0, Units(MaxBufUnits)}
  /\ tz_offset \in DrawnTzOffsets
  /\ outer = NoOuter
  /\ itemHdr = NoItemHeader
  /\ pos = 0
  /\ pc = "sections"
  /\ err = ""
  /\ hsma = NoHsma
  /\ sections = <<>>
  /\ sub = <<>>
  /\ itemsLeft = 0
  /\ cur = NoItem
  /\ bomasLeft = 0
  /\ onDisk = <<>>
  /\ view = NoView

\* an exception leaves the parse: parse_library returns nothing, and what the
\* parse had built is dropped.  `disk` keeps the children read for the item at hand
Raise(e, p, disk) ==
  /\ pc' = "raised"
  /\ err' = e
  /\ pos' = p
  /\ hsma' = NoHsma
  /\ sections' = <<>>
  /\ sub' = <<>>
  /\ itemsLeft' = 0
  /\ cur' = NoItem
  /\ bomasLeft' = 0
  /\ onDisk' = disk

\* _parse_hsma from the header read to the dispatch on section_type: where the
\* cursor stands and what runs next ("list": a composite sub-parser, "hsma_end":
\* the end-position check)
ParseHsmaHead(h, blen, p) ==
  LET p1 == p + h.next_section_offset IN
  IF h.header # "hsma"
  THEN [raised |-> "ValueError: signature", pos |-> p, next |-> "raised"]
  ELSE IF h.section_type \in Composite
  THEN [raised |-> "", pos |-> p1, next |-> "list"]
  ELSE IF h.section_type = HFMA_INNER_MASTER
  THEN IF SliceLen(blen, p1, p1 + 4) # 4 \/ h.inner # "hfma"
       THEN [raised |-> "ValueError: signature", pos |-> p1, next |-> "raised"]
       ELSE [ raised |-> "", pos |-> p1 + (h.section_len - h.next_section_offset),
              next |-> "hsma_end" ]
  ELSE IF h.section_type = LPMA_UNK
  THEN [ raised |-> "", pos |-> p1 + (h.section_len - h.next_section_offset),
         next |-> "hsma_end" ]
  ELSE [raised |-> "", pos |-> p1, next |-> "hsma_end"]

\* parse_library's loop enters _parse_hsma: the header, the advance to the payload
\* and the sections that have no sub-parser
ParseHsma ==
  /\ pc = "sections"
  /\ pos < bufLen
  /\ Len(sections) < MaxSections
  /\ IF ~CanUnpack(bufLen, pos, Size_4sIII)
     THEN Raise("struct.error", pos, <<>>)
     ELSE \E h \in DrawnHsmas(pos) :
            LET r == ParseHsmaHead(h, bufLen, pos) IN
            IF r.raised # ""
            THEN Raise(r.raised, r.pos, <<>>)
            ELSE /\ pc' = r.next
                 /\ pos' = r.pos
                 /\ hsma' = [ start |-> pos,
                              section_type |-> h.section_type, section_len |-> h.section_len,
                              next_section_offset |-> h.next_section_offset,
                              expected_end_pos |-> pos + h.section_len,
                              sub_section |-> None ]
                 /\ UNCHANGED <<err, sections, sub, itemsLeft, cur, bomasLeft, onDisk>>
  /\ UNCHANGED <<bufLen, tz_offset, itemHdr, outer, view>>

\* _parse_ltma_track_master, _parse_lpma_playlists, _parse_lama_album_artist and
\* _parse_plma_library up to their loop: the list header and the advance past it
ParseList ==
  /\ pc = "list"
  /\ IF ~CanUnpack(bufLen, pos, Size_4sII)
     THEN Raise("struct.error", pos, <<>>)
     ELSE \E l \in DrawnLists(hsma.section_type) :
            IF l.header # ListSignature(hsma.section_type)
            THEN Raise("ValueError: signature", pos, <<>>)
            ELSE /\ pos' = pos + l.section_len
                 /\ sub' = <<>>
                 /\ IF hsma.section_type = PLMA_LIBRARY_MASTER
                    THEN /\ pc' = "bomas"
                         /\ itemsLeft' = 0
                         /\ cur' = PlmaList
                         /\ bomasLeft' = l.num
                    ELSE /\ pc' = "items"
                         /\ itemsLeft' = l.num
                         /\ cur' = NoItem
                         /\ bomasLeft' = 0
                 /\ UNCHANGED <<err, hsma, sections, onDisk>>
  /\ UNCHANGED <<bufLen, tz_offset, itemHdr, outer, view>>

\* the bytes an item's header reads: the unpacked tuple, and the fields at fixed offsets
ItemExtent(section_type) ==
  IF section_type = ITMA_TRACK_MASTER THEN 66
  ELSE IF section_type = LPMA_PLAYLIST_MASTER THEN 142
  ELSE Size_4sIII

\* _parse_itma_track, _parse_lpma_item and _parse_iama_item up to their loop: the item
\* header, the item object and the advance past the header
ParseItem ==
  /\ pc = "items"
  /\ itemsLeft > 0
  /\ IF ~CanUnpack(bufLen, pos, ItemExtent(hsma.section_type))
     THEN Raise("struct.error", pos, <<>>) /\ UNCHANGED itemHdr
     ELSE \E i \in DrawnItems(hsma.section_type, pos) :
            IF i.header # ItemSignature(hsma.section_type)
            THEN Raise("ValueError: signature", pos, <<>>) /\ UNCHANGED itemHdr
            ELSE /\ pc' = "bomas"
                 /\ pos' = pos + i.section_len
                 /\ itemHdr' = [start |-> pos, section_len |-> i.section_len,
                                sections_len |-> i.sections_len]
                 /\ cur' = IF hsma.section_type = ITMA_TRACK_MASTER
                           THEN ItmaTrack(i.persistent_id, i.id, i.starred_val = 2,
                                          i.rating, i.unchecked)
                           ELSE IF hsma.section_type = LPMA_PLAYLIST_MASTER
                           THEN LpmaPlaylist(i.persistent_id, i.date_created,
                                             i.date_modified, i.num_tracks)
                           ELSE IamaItem(pos + i.sections_len)
                 /\ bomasLeft' = i.num_boma
                 /\ onDisk' = <<>>
                 /\ UNCHANGED <<err, hsma, sections, sub, itemsLeft>>
  /\ UNCHANGED <<bufLen, tz_offset, outer, view>>

\* the keyword argument each item parser passes to _parse_boma
Kwarg(kind) ==
  IF kind = "ItmaTrack" THEN "itma_track"
  ELSE IF kind = "LpmaPlaylist" THEN "lpma_playlist"
  ELSE ""

\* one iteration of an item's `for _ in range(num_boma)`: _parse_boma on the next
\* child, and the append of the container it returns, if any
ParseBomaChild ==
  /\ pc = "bomas"
  /\ bomasLeft > 0
  /\ \E b \in (IF CanUnpack(bufLen, pos, Size_4sIII) THEN DrawnBomas(cur.kind) ELSE {BlankBoma}) :
       LET r == ParseBoma(b, Kwarg(cur.kind), cur, bufLen, pos) IN
       IF r.raised # ""
       THEN Raise(r.raised, r.pos, Append(onDisk, b))
       ELSE /\ pos' = r.pos
            /\ cur' = IF IsNone(r.container) THEN r.target
                      ELSE [r.target EXCEPT !.bomas = Append(@, Val(r.container))]
            /\ bomasLeft' = bomasLeft - 1
            /\ onDisk' = Append(onDisk, b)
            /\ UNCHANGED <<pc, err, hsma, sections, sub, itemsLeft>>
  /\ UNCHANGED <<bufLen, tz_offset, itemHdr, outer, view>>

\* an item parser returns after its last child: _parse_itma_track and
\* _parse_lpma_item return the item, which the list parser appends;
\* _parse_iama_item checks its end position and returns its containers, appended
\* only if the list is not empty; _parse_plma_library returns `bomas or None`
ChildrenDone ==
  /\ pc = "bomas"
  /\ bomasLeft = 0
  /\ IF cur.kind = "plma"
     THEN /\ pc' = "hsma_end"
          /\ hsma' = [hsma EXCEPT !.sub_section =
                        IF cur.bomas = <<>> THEN None ELSE Some(cur.bomas)]
          /\ UNCHANGED <<pos, err, sections, sub, itemsLeft, cur, bomasLeft, onDisk>>
     ELSE IF cur.kind = "iama" /\ pos # cur.expected_end_pos
     THEN Raise("ValueError: end position", pos, onDisk)
     ELSE /\ pc' = "items"
          /\ sub' = IF cur.kind = "iama"
                    THEN IF cur.bomas = <<>> THEN sub ELSE Append(sub, cur.bomas)
                    ELSE Append(sub, cur)
          /\ itemsLeft' = itemsLeft - 1
          /\ UNCHANGED <<pos, err, hsma, sections, cur, bomasLeft, onDisk>>
  /\ UNCHANGED <<bufLen, tz_offset, itemHdr, outer, view>>

\* a list parser returns its list after the last item
ListDone ==
  /\ pc = "items"
  /\ itemsLeft = 0
  /\ pc' = "hsma_end"
  /\ hsma' = [hsma EXCEPT !.sub_section = Some(sub)]
  /\ UNCHANGED <<bufLen, tz_offset, itemHdr, outer, pos, err, sections, sub, itemsLeft, cur, bomasLeft,
                 onDisk, view>>

\* a variant of EndMismatch that accepts every end position
EndMismatch_never(p, expected_end_pos) == FALSE

\* `if reader.pos != expected_end_pos`
EndMismatch(p, expected_end_pos) == p # expected_end_pos

\* _parse_hsma after the dispatch: the end-position check, SectionType(section_type)
\* and the Hsma returned, which parse_library appends
HsmaEnd ==
  /\ pc = "hsma_end"
  /\ IF EndMismatch(pos, hsma.expected_end_pos)
     THEN Raise("ValueError: end position", pos, <<>>)
     ELSE IF ~HasValue(SectionType, hsma.section_type)
     THEN Raise("ValueError: not a valid SectionType", pos, <<>>)
     ELSE /\ pc' = "sections"
          /\ sections' = Append(sections,
                                Hsma(Member(SectionType, hsma.section_type), hsma.sub_section))
          /\ hsma' = NoHsma
          /\ sub' = <<>>
          /\ cur' = NoItem
          /\ bomasLeft' = 0
          /\ itemsLeft' = 0
          /\ onDisk' = <<>>
          /\ UNCHANGED <<pos, err>>
  /\ UNCHANGED <<bufLen, tz_offset, itemHdr, outer, view>>

\* parse_library's loop ends at the end of the buffer: the RawLibrary is returned
ParseDone ==
  /\ pc = "sections"
  /\ pos >= bufLen
  /\ pc' = "done"
  /\ UNCHANGED <<bufLen, tz_offset, itemHdr, outer, pos, err, hsma, sections, sub, itemsLeft, cur,
                 bomasLeft, onDisk, view>>

\* ============================================================ view layer
\* ------------------------------------------------------------ str methods
UpperChars ==
  << "A", "B", "C", "D", "E", "F", "G", "H", "I", "J", "K", "L", "M",
     "N", "O", "P", "Q", "R", "S", "T", "U", "V", "W", "X", "Y", "Z" >>
LowerChars ==
  << "a", "b", "c", "d", "e", "f", "g", "h", "i", "j", "k", "l", "m",
     "n", "o", "p", "q", "r", "s", "t", "u", "v", "w", "x", "y", "z" >>

\* str.lower() of one character
LowerChar(c) ==
  IF \E i \in 1..Len(UpperChars) : UpperChars[i] = c
  THEN LowerChars[CHOOSE i \in 1..Len(UpperChars) : UpperChars[i] = c]
  ELSE c

\* a variant of Lower that keeps the case
Lower_identity(s) == s

\* str.lower()
Lower(s) == [i \in 1..Len(s) |-> LowerChar(s[i])]

\* s.startswith(prefix)
StartsWith(s, prefix) == Len(s) >= Len(prefix) /\ SubSeq(s, 1, Len(prefix)) = prefix

\* s.removeprefix(prefix): the prefix is removed once, from the start only
RemovePrefix(s, prefix) ==
  IF StartsWith(s, prefix) THEN SubSeq(s, Len(prefix) + 1, Len(s)) ELSE s

\* sub in s
Contains(s, part) ==
  \E i \in 1..(Len(s) - Len(part) + 1) : SubSeq(s, i, i + Len(part) - 1) = part

XlmBlock == <<"x", "l", "m", "_", "b", "l", "o", "c", "k">>
FilePrefix ==
  <<"f", "i", "l", "e", ":", "/", "/", "l", "o", "c", "a", "l", "h", "o", "s", "t", "/">>

\* ---------------------------------------------------- urllib.parse.unquote
HexDigits ==
  << "0", "1", "2", "3", "4", "5", "6", "7", "8", "9", "A", "B", "C", "D", "E", "F" >>
HexLower == << "a", "b", "c", "d", "e", "f" >>
IsHex(c) ==
  \/ \E i \in 1..Len(HexDigits) : HexDigits[i] = c
  \/ \E i \in 1..Len(HexLower) : HexLower[i] = c
HexValue(c) ==
  IF \E i \in 1..Len(HexDigits) : HexDigits[i] = c
  THEN (CHOOSE i \in 1..Len(HexDigits) : HexDigits[i] = c) - 1
  ELSE (CHOOSE i \in 1..Len(HexLower) : HexLower[i] = c) + 9

\* the ASCII characters 32..126, in code order
Printable ==
  << " ", "!", "QUOTE", "#", "$", "%", "&", "'", "(", ")", "*", "+", ",", "-", ".", "/",
     "0", "1", "2", "3", "4", "5", "6", "7", "8", "9", ":", ";", "<", "=", ">", "?",
     "@", "A", "B", "C", "D", "E", "F", "G", "H", "I", "J", "K", "L", "M", "N", "O",
     "P", "Q", "R", "S", "T", "U", "V", "W", "X", "Y", "Z", "[", "BACKSLASH", "]", "^", "_",
     "BACKTICK", "a", "b", "c", "d", "e", "f", "g", "h", "i", "j", "k", "l", "m", "n", "o",
     "p", "q", "r", "s", "t", "u", "v", "w", "x", "y", "z", "{", "|", "}", "~" >>

\* the character a decoded byte stands for: an ASCII byte is its character, a byte
\* that is no UTF-8 text on its own is replaced (errors=replace)
ByteChar(n) ==
  IF n >= 32 /\ n <= 126 THEN Printable[n - 31]
  ELSE IF n < 32 THEN "CTRL"
  ELSE "U+FFFD"

RECURSIVE Unquote(_)
\* unquote(s): every %XX with two hex digits becomes the byte it names, in one pass
\* from the left; a % that two hex digits do not follow stays as it is
Unquote(s) ==
  IF s = <<>> THEN <<>>
  ELSE IF s[1] = "%" /\ Len(s) >= 3 /\ IsHex(s[2]) /\ IsHex(s[3])
  THEN <<ByteChar(16 * HexValue(s[2]) + HexValue(s[3]))>> \o Unquote(SubSeq(s, 4, Len(s)))
  ELSE <<s[1]>> \o Unquote(SubSeq(s, 2, Len(s)))

\* ------------------------------------------------------ utils.get_datetime
\* a variant that reports a date as absent when the adjusted seconds are 0
GetDatetime_adjusted(secs, tz) ==
  IF IsNone(secs) \/ Val(secs) + tz = 0 THEN None ELSE Some(Val(secs) + tz)

\* a datetime is held as its seconds since 1904-01-01 00:00:00; secs is an
\* `int | None`, and `not secs` holds of None and of 0
GetDatetime(secs, tz) ==
  IF IsNone(secs) \/ Val(secs) = 0 THEN None ELSE Some(Val(secs) + tz)

\* ------------------------------------------------------------ isinstance
IsItmaTrack(x) == "kind" \in DOMAIN x /\ x.kind = "ItmaTrack"
IsLpmaPlaylist(x) == "kind" \in DOMAIN x /\ x.kind = "LpmaPlaylist"
IsBomaDataContainer(x) == DOMAIN x = {"type", "value"}

\* a variant of FirstSection that takes the last section with this section type
FirstSection_last(secs, section_type) ==
  IF \E i \in 1..Len(secs) : secs[i].section_type.value = section_type
  THEN CHOOSE i \in 1..Len(secs) :
         /\ secs[i].section_type.value = section_type
         /\ \A j \in (i + 1)..Len(secs) : secs[j].section_type.value # section_type
  ELSE 0

\* the first section of raw_library.sections with this section type, 0 if the
\* loop runs to its `else`
FirstSection(secs, section_type) ==
  IF \E i \in 1..Len(secs) : secs[i].section_type.value = section_type
  THEN CHOOSE i \in 1..Len(secs) :
         /\ secs[i].section_type.value = section_type
         /\ \A j \in 1..(i - 1) : secs[j].section_type.value # section_type
  ELSE 0

\* --------------------------------------------------------------- _itma2track
\* getattr(boma.type, 'name', None): an enum member has a name, a plain int has none
TypeName(t) == IF "name" \in DOMAIN t THEN Some(t.name) ELSE None

RECURSIVE Metadata_first(_, _, _)
\* a variant of Metadata in which the first container with a key wins
Metadata_first(bomas, n, ignore_xlm_block) ==
  IF n = 0 THEN <<>>
  ELSE LET md == Metadata_first(bomas, n - 1, ignore_xlm_block)
           boma == bomas[n]
           name == TypeName(boma.type)
       IN IF IsNone(name) \/ Val(name) = EmptyStr THEN md
          ELSE IF ignore_xlm_block /\ StartsWith(Lower(Val(name)), XlmBlock) THEN md
          ELSE [k \in (DOMAIN md) \cup {Lower(Val(name))} |->
                  IF k \in DOMAIN md THEN md[k] ELSE boma.value]

RECURSIVE Metadata(_, _, _)
\* the metadata dict after the loop over bomas[1..n]: a later container with the
\* same key overwrites the earlier one
Metadata(bomas, n, ignore_xlm_block) ==
  IF n = 0 THEN <<>>
  ELSE LET md == Metadata(bomas, n - 1, ignore_xlm_block)
           boma == bomas[n]
           name == TypeName(boma.type)
       IN IF IsNone(name) \/ Val(name) = EmptyStr THEN md
          ELSE IF ignore_xlm_block /\ StartsWith(Lower(Val(name)), XlmBlock) THEN md
          ELSE [k \in (DOMAIN md) \cup {Lower(Val(name))} |->
                  IF k = Lower(Val(name)) THEN boma.value ELSE md[k]]

Itma2Track(itma_track, tz, ignore_xlm_block) ==
  [ kind |-> "Track",
    persistent_id |-> itma_track.persistent_id, id |-> itma_track.id,
    starred |-> itma_track.starred, rating |-> itma_track.rating,
    unchecked |-> itma_track.unchecked,
    date_added |-> GetDatetime(itma_track.date_added, tz),
    date_modified |-> GetDatetime(itma_track.date_modified, tz),
    date_last_played |-> GetDatetime(itma_track.date_last_played, tz),
    play_count |-> itma_track.play_count, song_time_ms |-> itma_track.song_time_ms,
    bitrate |-> itma_track.bitrate, normalization |-> itma_track.normalization,
    file_size |-> itma_track.file_size,
    metadata |-> Metadata(itma_track.bomas, Len(itma_track.bomas), ignore_xlm_block) ]

\* ------------------------------------------------------------- _lpma2playlist
\* the first container whose type equals PLAYLIST_NAME (IntEnum members compare as
\* their int values), 0 if the loop runs to its `else`
NameBoma(bomas) ==
  LET is(i) == bomas[i].type.value = Attr(BomaWideCharType, N_PLAYLIST_NAME).value IN
  IF \E i \in 1..Len(bomas) : is(i)
  THEN CHOOSE i \in 1..Len(bomas) : is(i) /\ \A j \in 1..(i - 1) : ~is(j)
  ELSE 0

\* a variant of Lpma2Playlist that returns a Playlist with an empty name where
\* Lpma2Playlist returns None
Lpma2Playlist_unnamed(lpma_playlist, tz) ==
  LET i == NameBoma(lpma_playlist.bomas) IN
  Some([ kind |-> "Playlist",
         name |-> IF i = 0 \/ IsNone(lpma_playlist.bomas[i].value) THEN EmptyStr
                  ELSE Val(lpma_playlist.bomas[i].value),
         date_created |-> GetDatetime(Some(lpma_playlist.date_created), tz),
         date_modified |-> GetDatetime(Some(lpma_playlist.date_modified), tz),
         is_smart |-> lpma_playlist.is_smart,
         is_folder |-> lpma_playlist.is_folder,
         persistent_track_ids |-> lpma_playlist.persistent_track_ids ])

\* None, or the Playlist: a container value is a str or None
Lpma2Playlist(lpma_playlist, tz) ==
  LET i == NameBoma(lpma_playlist.bomas) IN
  IF i = 0 THEN None
  ELSE IF IsNone(lpma_playlist.bomas[i].value) THEN None
  ELSE Some([ kind |-> "Playlist",
              name |-> Val(lpma_playlist.bomas[i].value),
              date_created |-> GetDatetime(Some(lpma_playlist.date_created), tz),
              date_modified |-> GetDatetime(Some(lpma_playlist.date_modified), tz),
              is_smart |-> lpma_playlist.is_smart,
              is_folder |-> lpma_playlist.is_folder,
              persistent_track_ids |-> lpma_playlist.persistent_track_ids ])

\* ------------------------------------------------------------------ get_tracks
\* debug is Python's __debug__: `assert` statements run unless the interpreter was
\* started with -O
GetTracks(secs, tz, ignore_xlm_block, debug) ==
  LET i == FirstSection(secs, ITMA_TRACK_MASTER)
      ss == secs[i].sub_section
      raise(e) == [raised |-> e, result |-> <<>>]
  IN
  IF i = 0 THEN raise("ValueError: Track section not found")
  ELSE IF debug /\ IsNone(ss) THEN raise("AssertionError")
  ELSE IF debug /\ Len(Val(ss)) = 0 THEN raise("AssertionError")
  ELSE IF debug /\ ~IsItmaTrack(Val(ss)[1]) THEN raise("AssertionError")
  ELSE IF IsNone(ss) THEN raise("TypeError")
  ELSE IF \E k \in 1..Len(Val(ss)) : ~IsItmaTrack(Val(ss)[k])
  THEN raise("ValueError: Invalid subsection type")
  ELSE [ raised |-> "",
         result |-> [k \in 1..Len(Val(ss)) |-> Itma2Track(Val(ss)[k], tz, ignore_xlm_block)] ]

\* --------------------------------------------------------------- get_playlists
RECURSIVE Playlists(_, _, _)
\* the `playlists` list after the loop over the raw playlists [1..n]: a playlist is
\* appended when _lpma2playlist returns one
Playlists(lpmas, n, tz) ==
  IF n = 0 THEN <<>>
  ELSE LET playlist == Lpma2Playlist(lpmas[n], tz) IN
       IF IsNone(playlist) THEN Playlists(lpmas, n - 1, tz)
       ELSE Append(Playlists(lpmas, n - 1, tz), Val(playlist))

GetPlaylists(secs, tz, debug) ==
  LET i == FirstSection(secs, LPMA_PLAYLIST_MASTER)
      ss == secs[i].sub_section
      raise(e) == [raised |-> e, result |-> <<>>]
  IN
  IF i = 0 THEN raise("ValueError: Playlist section not found")
  ELSE IF debug /\ IsNone(ss) THEN raise("AssertionError")
  ELSE IF debug /\ Len(Val(ss)) = 0 THEN raise("AssertionError")
  ELSE IF IsNone(ss) THEN raise("TypeError")
  ELSE IF \E k \in 1..Len(Val(ss)) : ~IsLpmaPlaylist(Val(ss)[k])
  THEN raise("ValueError: Invalid subsection type")
  ELSE [raised |-> "", result |-> Playlists(Val(ss), Len(Val(ss)), tz)]

\* -------------------------------------------------------- get_library_location
\* the first element of the library master's list at which the loop leaves: one
\* that is no BomaDataContainer, or the MANAGED_MEDIA_FOLDER container; 0 if none
LocationStop(bomas) ==
  LET stop(k) ==
        \/ ~IsBomaDataContainer(bomas[k])
        \/ bomas[k].type.value = Attr(BomaWideCharType, N_MANAGED_MEDIA_FOLDER).value
  IN IF \E k \in 1..Len(bomas) : stop(k)
     THEN CHOOSE k \in 1..Len(bomas) : stop(k) /\ \A j \in 1..(k - 1) : ~stop(j)
     ELSE 0

GetLibraryLocation(secs, include_file_prefix, debug) ==
  LET i == FirstSection(secs, PLMA_LIBRARY_MASTER)
      ss == secs[i].sub_section
      k == LocationStop(Val(ss))
      boma_data == Val(ss)[k]
      path == Unquote(Val(boma_data.value))
      raise(e) == [raised |-> e, result |-> <<>>]
  IN
  IF i = 0 THEN raise("ValueError: Library section not found")
  ELSE IF debug /\ IsNone(ss) THEN raise("AssertionError")
  ELSE IF debug /\ Len(Val(ss)) = 0 THEN raise("AssertionError")
  ELSE IF IsNone(ss) THEN raise("TypeError")
  ELSE IF k = 0 THEN raise("ValueError: Could not find any media folder boma entry.")
  ELSE IF ~IsBomaDataContainer(boma_data) THEN raise("ValueError: Invalid subsection boma type")
  ELSE IF IsNone(boma_data.value) THEN raise(IF debug THEN "AssertionError" ELSE "TypeError")
  ELSE [ raised |-> "",
         result |-> IF include_file_prefix THEN path ELSE RemovePrefix(path, FilePrefix) ]

\* ------------------------------------------------------------ the view calls
\* a caller holding the RawLibrary calls a view function; the library is not written
ViewCall(op, flag, debug, r) ==
  /\ view' = [op |-> op, flag |-> flag, debug |-> debug, raised |-> r.raised, result |-> r.result]
  /\ UNCHANGED <<bufLen, tz_offset, itemHdr, outer, pos, pc, err, hsma, sections, sub, itemsLeft, cur,
                 bomasLeft, onDisk>>

\* library.get_tracks(raw_library, ignore_xlm_block)
CallGetTracks ==
  /\ pc = "done"
  /\ \E ignore_xlm_block \in BOOLEAN, debug \in BOOLEAN :
       ViewCall("get_tracks", ignore_xlm_block, debug,
                GetTracks(sections, tz_offset, ignore_xlm_block, debug))

\* library.get_playlists(raw_library)
CallGetPlaylists ==
  /\ pc = "done"
  /\ \E debug \in BOOLEAN :
       ViewCall("get_playlists", FALSE, debug, GetPlaylists(sections, tz_offset, debug))

\* library.get_library_location(raw_library, include_file_prefix)
CallGetLibraryLocation ==
  /\ pc = "done"
  /\ \E include_file_prefix \in BOOLEAN, debug \in BOOLEAN :
       ViewCall("get_library_location", include_file_prefix, debug,
                GetLibraryLocation(sections, include_file_prefix, debug))

Next ==
  \/ ParseHsma
  \/ ParseList
  \/ ParseItem
  \/ ParseBomaChild
  \/ ChildrenDone
  \/ ListDone
  \/ HsmaEnd
  \/ ParseDone
  \/ CallGetTracks
  \/ CallGetPlaylists
  \/ CallGetLibraryLocation

Spec == Init /\ [][Next]_vars

\* =================================================================== SpecView
\* The view functions take any RawLibrary.  SpecView starts from libraries of the
\* shapes the parser builds (section lists of tracks, of playlists, of library
\* containers) with richer contents than a parse of MaxBufUnits bytes reaches.

\* all sequences over S of length 0..n
SeqsUpTo(S, n) == UNION {[1..k -> S] : k \in 0..n}

RECURSIVE Concat(_)
\* ''.join(parts)
Concat(parts) == IF parts = <<>> THEN <<>> ELSE Head(parts) \o Concat(Tail(parts))

\* playlists per playlist master, tracks per track master, pieces per media folder URL
MaxPlaylists == 2
MaxTracks == 1
MaxParts == 2

\* the container lists of the drawn tracks: titles (a later one overwrites an
\* earlier one), XML blocks (the tags 0x36 and 0x1D are both named XLM_BLOCK_1),
\* a book, and a container whose type is a plain int
DrawnTrackContainers ==
  LET title(t) == BomaDataContainer(Member(BomaWideCharType, 2), Some(t))
      xlm_block_1 == BomaDataContainer(Member(BomaUtf8Short, 54), Some(<<"x">>))
      xlm_block_1_long == BomaDataContainer(Member(BomaUtf8Long, 29), Some(<<"y">>))
      xlm_artwork == BomaDataContainer(Member(BomaUtf8Short, 402), Some(<<"x">>))
      book == BomaDataContainer(Member(BomaBookType, 66), None)
      plain == BomaDataContainer([value |-> 307], Some(<<"A">>))
  IN { <<>>, <<title(<<"A">>)>>, <<xlm_block_1>>, <<xlm_artwork>>, <<book>>, <<plain>>,
       <<title(<<"A">>), xlm_block_1>>, <<xlm_block_1, xlm_artwork, xlm_block_1_long>>,
       <<title(<<"A">>), title(<<"B">>), xlm_artwork, title(<<"A">>)>> }

\* the container lists of the drawn playlists: no name, an empty name, a name, a
\* book before the name, two names
DrawnPlaylistContainers ==
  LET name(t) == BomaDataContainer(Attr(BomaWideCharType, N_PLAYLIST_NAME), Some(t))
      book == BomaDataContainer(Member(BomaBookType, 66), None)
  IN { <<>>, <<book>>, <<name(EmptyStr)>>, <<name(<<"A">>)>>, <<book, name(<<"A">>)>>,
       <<name(<<"A">>), name(<<"B">>)>> }

\* the pieces media folder URLs are drawn from
DrawnUrlParts ==
  { FilePrefix, <<"M", "/">>, <<"%", "2", "0">>, <<"%", "2">>, <<"%", "2", "5">>, <<"2", "0">>,
    <<"f", "i", "l", "e", "%", "3", "A", "/", "/", "l", "o", "c", "a", "l", "h", "o", "s", "t", "/">> }

DrawnUrls == {Concat(parts) : parts \in SeqsUpTo(DrawnUrlParts, MaxParts)}

\* the stored 1904-epoch seconds of the drawn date fields, and the time zone
\* offsets of the drawn libraries (a stored value and an offset can cancel)
DrawnViewDates == {0, 3600}
DrawnViewTzOffsets == {0, -3600}

\* a track's date fields are None until a numerics container sets them
DrawnTrackDates == {None} \cup {Some(d) : d \in DrawnViewDates}

DrawnTrackLists ==
  { [k \in 1..Len(bs) |->
       [ItmaTrack(k, k, TRUE, 80, 0) EXCEPT !.bomas = bs[k], !.date_added = added,
                                            !.date_modified = modified,
                                            !.date_last_played = last_played]] :
    bs \in SeqsUpTo(DrawnTrackContainers, MaxTracks),
    added \in DrawnTrackDates, modified \in DrawnTrackDates, last_played \in DrawnTrackDates }

\* the k-th playlist lists the track k, which tells the playlists apart
DrawnPlaylistLists ==
  { [k \in 1..Len(bs) |->
       [LpmaPlaylist(k, created, modified, 1) EXCEPT !.bomas = bs[k],
                                                     !.persistent_track_ids = <<k>>]] :
    bs \in SeqsUpTo(DrawnPlaylistContainers, MaxPlaylists),
    created \in DrawnViewDates, modified \in DrawnViewDates }

\* the library master's containers: at most one container before the media folder
DrawnLocationLists ==
  { lead \o <<BomaDataContainer(Attr(BomaWideCharType, N_MANAGED_MEDIA_FOLDER), Some(url))>> :
      lead \in SeqsUpTo({BomaDataContainer(Member(BomaBookType, 66), None)}, 1),
      url \in DrawnUrls }
  \cup {<<BomaDataContainer(Member(BomaBookType, 66), None)>>}

\* libraries that hold two sections of one type with different contents, the
\* second of them behind a section of another type
DrawnDuplicateLibraries ==
  LET section(section_type, l) == Hsma(Member(SectionType, section_type), Some(l))
      track(k) == [ItmaTrack(k, k, TRUE, 80, 0) EXCEPT
                     !.bomas = <<BomaDataContainer(Member(BomaWideCharType, 2), Some(<<"A">>))>>]
      playlist(k) == [LpmaPlaylist(k, 0, 0, 1) EXCEPT
                        !.bomas = <<BomaDataContainer(Attr(BomaWideCharType, N_PLAYLIST_NAME),
                                                      Some(<<"A">>))>>,
                        !.persistent_track_ids = <<k>>]
      folder(url) == BomaDataContainer(Attr(BomaWideCharType, N_MANAGED_MEDIA_FOLDER), Some(url))
      tracks(k) == section(ITMA_TRACK_MASTER, <<track(k)>>)
      playlists(k) == section(LPMA_PLAYLIST_MASTER, <<playlist(k)>>)
      master(url) == section(PLMA_LIBRARY_MASTER, <<folder(url)>>)
  IN { <<tracks(1), playlists(1), tracks(2)>>,
       <<playlists(1), tracks(1), playlists(2)>>,
       <<master(<<"M", "/">>), tracks(1), master(<<"N", "/">>)>> }

DrawnLibraries ==
  {<<>>}
  \cup DrawnDuplicateLibraries
  \cup {<<Hsma(Member(SectionType, ITMA_TRACK_MASTER), Some(l))>> : l \in DrawnTrackLists}
  \cup {<<Hsma(Member(SectionType, LPMA_PLAYLIST_MASTER), Some(l))>> : l \in DrawnPlaylistLists}
  \cup {<<Hsma(Member(SectionType, PLMA_LIBRARY_MASTER), Some(l))>> : l \in DrawnLocationLists}
  \cup {<<Hsma(Member(SectionType, PLMA_LIBRARY_MASTER), None)>>}

InitView ==
  /\ sections \in DrawnLibraries
  /\ tz_offset \in DrawnViewTzOffsets
  /\ outer = NoOuter
  /\ itemHdr = NoItemHeader
  /\ pc = "done"
  /\ bufLen = 0
  /\ pos = 0
  /\ err = ""
  /\ hsma = NoHsma
  /\ sub = <<>>
  /\ itemsLeft = 0
  /\ cur = NoItem
  /\ bomasLeft = 0
  /\ onDisk = <<>>
  /\ view = NoView

NextView ==
  \/ CallGetTracks
  \/ CallGetPlaylists
  \/ CallGetLibraryLocation

SpecView == InitView /\ [][NextView]_vars

\* =============================================================== SpecNumerics
\* _parse_boma_track_numerics applied to one track, container after container

\* the values the drawn numerics containers store
DrawnPlayCounts == {0, 1, 2}
DrawnLastPlayed == {0, 5}
DrawnBitrates == {0, 128}
DrawnAdded == {0, 7}

\* the containers: a Track numerics 1 with bitrate and date_added, a Track
\* numerics 2 with play_count and date_last_played
DrawnNumerics ==
  { [BlankBoma EXCEPT !.boma_subtype = 1, !.section_len = Units(CeilUnits(BomaExtent(1, 0))),
                      !.numerics = [ZeroNumerics EXCEPT !.bitrate = b, !.date_added = a]] :
      b \in DrawnBitrates, a \in DrawnAdded }
  \cup
  { [BlankBoma EXCEPT !.boma_subtype = 23, !.section_len = Units(CeilUnits(BomaExtent(23, 0))),
                      !.numerics = [ZeroNumerics EXCEPT !.play_count = c, !.date_last_played = d]] :
      c \in DrawnPlayCounts, d \in DrawnLastPlayed }

\* the bytes behind the reader's cursor: none, or enough for every field
DrawnNumericsBufLens == {Units(0), Units(CeilUnits(BomaExtent(1, 0)))}

InitNumerics ==
  /\ bufLen \in DrawnNumericsBufLens
  /\ tz_offset \in DrawnTzOffsets
  /\ outer = NoOuter
  /\ itemHdr = NoItemHeader
  /\ pc = "numerics"
  /\ pos = 0
  /\ err = ""
  /\ hsma = NoHsma
  /\ sections = <<>>
  /\ sub = <<>>
  /\ itemsLeft = 0
  /\ cur = ItmaTrack(1, 1, TRUE, 80, 0)
  /\ bomasLeft = 0
  /\ onDisk = <<>>
  /\ view = NoView

\* what a call on the track leaves: the track, the cursor, and in onDisk the
\* container with the function it went through
NumericsCall(via, b, raised, track, p) ==
  /\ cur' = track
  /\ pos' = p
  /\ onDisk' = Append(onDisk, [via |-> via, boma |-> b])
  /\ err' = raised
  /\ pc' = IF raised = "" THEN "numerics" ELSE "raised"
  /\ UNCHANGED <<bufLen, tz_offset, itemHdr, outer, hsma, sections, sub, itemsLeft, bomasLeft, view>>

\* _parse_boma_track_numerics(reader, boma_subtype, itma_track) called on the
\* container at the cursor, which it leaves in place
ApplyTrackNumerics ==
  /\ pc = "numerics"
  /\ Len(onDisk) < MaxCount
  /\ \E b \in DrawnNumerics :
       LET r == ParseBomaTrackNumerics(cur, b.boma_subtype, b.numerics, bufLen, pos) IN
       NumericsCall("_parse_boma_track_numerics", b, r.raised, r.track, pos)

\* _parse_boma(reader, itma_track=itma_track), as _parse_itma_track calls it for
\* each child, on a numerics container at the cursor
ParseBomaNumerics ==
  /\ pc = "numerics"
  /\ Len(onDisk) < MaxCount
  /\ \E b \in DrawnNumerics :
       LET r == ParseBoma(b, "itma_track", cur, bufLen, pos) IN
       NumericsCall("_parse_boma", b, r.raised, r.target, r.pos)

NextNumerics ==
  \/ ApplyTrackNumerics
  \/ ParseBomaNumerics

SpecNumerics == InitNumerics /\ [][NextNumerics]_vars


\* ------------------------------------------------- float arithmetic of stars
\* `self.rating/100 * 5` is computed in IEEE 754 binary64: a true division
\* rounded to 53 significant bits, a multiplication rounded again, and int()
\* truncating toward zero.  A positive float is held as [bits, lsb]: the 53
\* bits of its significand, most significant first, and the exponent of its
\* last bit, so that its value is bits * 2^lsb.
SignificandBits == 53

\* the largest value of the u8 the rating is read as
UInt8Max == 255

\* the divisor and the factor of the expression
RatingScale == 100
StarScale == 5

Pow2(n) == 2 ^ n

\* the number a bit sequence (most significant first) denotes: the value of
\* its first half shifted over its second half
RECURSIVE BitsValue(_)
BitsValue(bits) ==
  IF bits = <<>> THEN 0
  ELSE IF Len(bits) = 1 THEN bits[1]
  ELSE LET h == Len(bits) \div 2
       IN BitsValue(SubSeq(bits, 1, h)) * Pow2(Len(bits) - h)
            + BitsValue(SubSeq(bits, h + 1, Len(bits)))

\* the low k bits of v, most significant first
FixedBits(v, k) == [i \in 1..k |-> (v \div Pow2(k - i)) % 2]

\* a significand is too wide for one machine int of the model: arithmetic on
\* it goes through two limbs, the low LimbBits bits and the bits above them
LimbBits == SignificandBits \div 2

\* the bits of one digit of a wide int
DigitBits == LimbBits \div 2

\* 2^n modulo d, a digit of the exponent apart so that every product stays
\* within a machine int of the model (d is small and n has a few digits)
Pow2Mod(n, d) ==
  ((((Pow2(DigitBits) % d) ^ (n \div DigitBits)) % d) * (Pow2(n % DigitBits) % d)) % d

\* the bits so far followed by the next n bits of the binary fraction rem / d,
\* and the remainder left: bit i is 1 when twice the remainder before it,
\* rem * 2^(i-1) modulo d, reaches d
FractionBits(rem, d, n, sofar) ==
  [bits |-> sofar \o [i \in 1..n |-> IF 2 * ((rem * Pow2Mod(i - 1, d)) % d) >= d THEN 1 ELSE 0],
   rem |-> (rem * Pow2Mod(n, d)) % d]

Low(bits) == BitsValue(SubSeq(bits, Len(bits) - LimbBits + 1, Len(bits)))
High(bits) == BitsValue(SubSeq(bits, 1, Len(bits) - LimbBits))

\* the bits of a non-negative int, most significant first (at least one bit)
RECURSIVE IntBits(_)
IntBits(n) ==
  IF n < Pow2(DigitBits)
  THEN FixedBits(n, CHOOSE k \in 1..DigitBits : n < Pow2(k) /\ (k = 1 \/ n >= Pow2(k - 1)))
  ELSE IntBits(n \div Pow2(DigitBits)) \o FixedBits(n % Pow2(DigitBits), DigitBits)

\* the bit sequence of high * 2^LimbBits + low, for low below 2^LimbBits
Join(high, low) ==
  IntBits(high) \o FixedBits(low, LimbBits)

\* bits * k + c as a bit sequence, for small k and c
Times(bits, k, c) ==
  LET low == Low(bits) * k + c
  IN Join(High(bits) * k + low \div Pow2(LimbBits), low % Pow2(LimbBits))

\* the index of the first 1 of a bit sequence, 0 when there is none
FirstOne(bits) ==
  IF \E i \in 1..Len(bits) : bits[i] = 1
  THEN CHOOSE i \in 1..Len(bits) : bits[i] = 1 /\ \A j \in 1..(i - 1) : bits[j] = 0
  ELSE 0

\* round-to-nearest, ties-to-even: the exact value is bits * 2^lsb plus, when
\* inexact holds, something below 2^lsb; bits has a 1 and 53 bits after its
\* first 1 or fewer
RoundToNearestEven(bits, lsb, inexact) ==
  LET first == FirstOne(bits)
      avail == Len(bits) - first + 1
  IN IF avail <= SignificandBits
     THEN [bits |-> SubSeq(bits, first, Len(bits)) \o [i \in 1..(SignificandBits - avail) |-> 0],
           lsb |-> lsb - (SignificandBits - avail)]
     ELSE LET kept == SubSeq(bits, first, first + SignificandBits - 1)
              dropped == SubSeq(bits, first + SignificandBits, Len(bits))
              half == dropped[1] = 1
              sticky == inexact \/ \E i \in 2..Len(dropped) : dropped[i] = 1
              up == half /\ (sticky \/ kept[SignificandBits] = 1)
              raised == Times(kept, 1, 1)
          IN IF ~up THEN [bits |-> kept, lsb |-> lsb + Len(dropped)]
             ELSE IF Len(raised) > SignificandBits
             THEN [bits |-> SubSeq(raised, 1, SignificandBits), lsb |-> lsb + Len(dropped) + 1]
             ELSE [bits |-> raised, lsb |-> lsb + Len(dropped)]

\* int / int of Python for n > 0 and d > 0: the quotient correctly rounded
TrueDivide(n, d) ==
  LET whole == IntBits(n \div d)
      width == SignificandBits + Len(IntBits(d)) + 1
      frac == FractionBits(n % d, d, width, whole)
  IN RoundToNearestEven(frac.bits, 0 - width, frac.rem # 0)

\* float * int for a small positive int k: the exact product, rounded
Multiply(x, k) == RoundToNearestEven(Times(x.bits, k, 0), x.lsb, FALSE)

\* int(float) for a positive float: the bits above the binary point
Truncate(x) ==
  IF x.lsb >= 0 THEN BitsValue(x.bits \o [i \in 1..x.lsb |-> 0])
  ELSE IF 0 - x.lsb >= Len(x.bits) THEN 0
  ELSE BitsValue(SubSeq(x.bits, 1, Len(x.bits) + x.lsb))

\* int(rating/100 * 5); 0/100 is 0.0 and 0.0 * 5 is 0.0
StarsOf(rating) ==
  IF rating = 0 THEN 0
  ELSE Truncate(Multiply(TrueDivide(rating, RatingScale), StarScale))

\* a variant of the property that rounds to the nearest star
Stars_rounded(itma_track) == (itma_track.rating * StarScale + RatingScale \div 2) \div RatingScale

\* ItmaTrack.stars
Stars(itma_track) == StarsOf(itma_track.rating)

\* Track.short_rating
ShortRating(track) == StarsOf(track.rating)

\* a parsed track with any rating a u8 holds
InitStars ==
  /\ bufLen = 0
  /\ tz_offset \in DrawnTzOffsets
  /\ outer = NoOuter
  /\ itemHdr = NoItemHeader
  /\ pc = "stars"
  /\ pos = 0
  /\ err = ""
  /\ hsma = NoHsma
  /\ sections = <<>>
  /\ sub = <<>>
  /\ itemsLeft = 0
  /\ cur \in {ItmaTrack(1, 1, TRUE, rating, 0) : rating \in 0..UInt8Max}
  /\ bomasLeft = 0
  /\ onDisk = <<>>
  /\ view = NoView

\* itma_track.stars read on the raw track
ReadStars ==
  /\ pc = "stars"
  /\ ViewCall("stars", FALSE, FALSE, [raised |-> "", result |-> Stars(cur)])

\* _itma2track(itma_track, tz_offset).short_rating read on the view-layer track
ReadShortRating ==
  /\ pc = "stars"
  /\ ViewCall("short_rating", FALSE, FALSE,
              [raised |-> "", result |-> ShortRating(Itma2Track(cur, tz_offset, TRUE))])

NextStars ==
  \/ ReadStars
  \/ ReadShortRating

SpecStars == InitStars /\ [][NextStars]_vars

\* ------------------------------------------------------- utils.BufferReader
\* the reader on its own: `onDisk` is reader.data, each byte standing for its
\* own index so that a slice shows where its bytes came from; `bufLen` is
\* len(reader.data), `pos` is reader.pos, and `view` holds the last call with
\* its arguments, its exception and the value returned
MaxReaderBytes == 16

\* data[a:b] of Python for a bytes object
Slice(data, a, b) ==
  LET n == Len(data)
      from == SliceIndex(n, a)
  IN [i \in 1..SliceLen(n, a, b) |-> data[from + i]]

\* struct.calcsize of the formats the parsers unpack, and the widths of the
\* read_uint8 / read_uint16 / read_uint32, read_int32 / read_uint64 helpers
DrawnFormatSizes == {Size_4sI, Size_4sII, Size_4sIII}
DrawnIntSizes == {1, 2, Size_I, Size_Q}

\* the offsets and lengths the parsers pass, and the lengths advance is given
\* (a negative one undoes an earlier advance and leaves the cursor at 0 or more)
DrawnOffsets == {0, 4, 8}
DrawnLengths == {0, 4, 8}
DrawnAdvances == {-8, -4, 4, 8}

InitReader ==
  /\ bufLen \in 0..MaxReaderBytes
  /\ onDisk = [i \in 1..bufLen |-> i - 1]
  /\ tz_offset \in DrawnTzOffsets
  /\ outer = NoOuter
  /\ itemHdr = NoItemHeader
  /\ pc = "reader"
  /\ pos = 0
  /\ err = ""
  /\ hsma = NoHsma
  /\ sections = <<>>
  /\ sub = <<>>
  /\ itemsLeft = 0
  /\ cur = NoItem
  /\ bomasLeft = 0
  /\ view = NoView

\* a variant of a read that moves the cursor past the bytes it asked for
ReaderCall_advancing(op, offset, size, raised, data) ==
  /\ view' = [op |-> op, flag |-> FALSE, debug |-> FALSE, raised |-> raised,
              result |-> [offset |-> offset, size |-> size, data |-> data]]
  /\ pos' = pos + size
  /\ UNCHANGED <<bufLen, tz_offset, itemHdr, outer, pc, err, hsma, sections, sub, itemsLeft, cur,
                 bomasLeft, onDisk>>

\* what a read leaves: the call and its outcome in view, the reader as it was
ReaderCall(op, offset, size, raised, data) ==
  ViewCall(op, FALSE, FALSE,
           [raised |-> raised, result |-> [offset |-> offset, size |-> size, data |-> data]])

\* struct.unpack(format, slice): struct.error unless the slice has the size of
\* the format
Unpack(op, offset, size) ==
  IF CanUnpack(bufLen, pos + offset, size)
  THEN ReaderCall(op, offset, size, "", Slice(onDisk, pos + offset, pos + offset + size))
  ELSE ReaderCall(op, offset, size, "struct.error", <<>>)

\* reader.read(format, offset)
Read ==
  /\ pc = "reader"
  /\ \E size \in DrawnFormatSizes, offset \in DrawnOffsets : Unpack("read", offset, size)

\* reader.read_uint8 / read_uint16 / read_int32 / read_uint32 / read_uint64 (offset)
ReadInt ==
  /\ pc = "reader"
  /\ \E size \in DrawnIntSizes, offset \in DrawnOffsets : Unpack("read_int", offset, size)

\* reader.read_bytes(offset, length) with a length: the slice, however short
ReadBytes ==
  /\ pc = "reader"
  /\ \E offset \in DrawnOffsets, length \in DrawnLengths :
       ReaderCall("read_bytes", offset, length, "",
                  Slice(onDisk, pos + offset, pos + offset + length))

\* reader.read_bytes(offset) with length None: data[pos:]
ReadBytesToEnd ==
  /\ pc = "reader"
  /\ \E offset \in DrawnOffsets :
       ReaderCall("read_bytes_to_end", offset, Max(bufLen - (pos + offset), 0), "",
                  Slice(onDisk, pos + offset, bufLen))

\* reader.advance(length)
Advance ==
  /\ pc = "reader"
  /\ \E length \in DrawnAdvances :
       /\ pos + length >= 0
       /\ pos + length <= 2 * MaxReaderBytes
       /\ pos' = pos + length
       /\ view' = [op |-> "advance", flag |-> FALSE, debug |-> FALSE, raised |-> "",
                   result |-> [offset |-> 0, size |-> length, data |-> <<>>]]
  /\ UNCHANGED <<bufLen, tz_offset, itemHdr, outer, pc, err, hsma, sections, sub, itemsLeft, cur,
                 bomasLeft, onDisk>>

NextReader ==
  \/ Read
  \/ ReadInt
  \/ ReadBytes
  \/ ReadBytesToEnd
  \/ Advance

SpecReader == InitReader /\ [][NextReader]_vars

\* ------------------------------------------- parse_library: the outer header
\* both dialects read a fixed outer header from the file, check it, decrypt the
\* first crypt_size bytes behind it and inflate the rest.  In this part
\* `bufLen` is len(library_data), `pos` is the cursor of the reader over the
\* file, and `outer` holds the file's header fields, the key and the stages
\* that have run.

\* the struct parse_library unpacks first: '<4sII' (musicdb), '>4sIIIb' (itl)
Size_4sIIIb == 17
OuterHeaderSize(dialect) == IF dialect = "musicdb" THEN Size_4sII ELSE Size_4sIIIb

\* the signature each dialect expects
OuterSignature(dialect) == IF dialect = "musicdb" THEN "hfma" ELSE "hdfm"

\* the offsets of the 4-byte header fields read after the length check, in the
\* order they are read: max_crypt_size, tz_offset, secs_since_1904 (musicdb);
\* num_msdh, max_crypt_size, tz_offset, secs_since_1904 (itl)
OuterFieldOffsets(dialect) ==
  IF dialect = "musicdb" THEN <<84, 88, 100>> ELSE <<48, 92, 100, 112>>

\* the key itlp_decrypt wants, and the AES block size
AesKeyLen == 16
AesBlockLen == 16

\* the files drawn: their true length, and what their header declares
DrawnFileLens == {0, 16, 128, 136, 144, 160}
DrawnHeaderLens == {0, 128, 144, 176}
DrawnMaxCryptSizes == {0, 16, 24, 102400}
DrawnKeyLens == {15, 16, 17}
DrawnMsdhCounts == {0, 1}

DrawnOuters ==
  [ dialect : {"musicdb", "itl"},
    header : {"hfma", "hdfm"},
    header_len : DrawnHeaderLens,
    file_len : DrawnFileLens,
    version_decodes : BOOLEAN,      \* the version bytes are valid utf-8
    max_crypt_size : DrawnMaxCryptSizes,
    num_msdh : DrawnMsdhCounts,
    inflates : BOOLEAN,             \* the bytes behind the header are a zlib stream
    key_len : DrawnKeyLens,
    crypt_size : {0},
    stages : {<<>>} ]

InitOuter ==
  /\ bufLen \in DrawnFileLens
  /\ outer \in {o \in DrawnOuters : o.dialect = "itl" \/ o.num_msdh = 0}
  /\ itemHdr = NoItemHeader
  /\ tz_offset \in DrawnTzOffsets
  /\ pc = "open"
  /\ pos = 0
  /\ err = ""
  /\ hsma = NoHsma
  /\ sections = <<>>
  /\ sub = <<>>
  /\ itemsLeft = 0
  /\ cur = NoItem
  /\ bomasLeft = 0
  /\ onDisk = <<>>
  /\ view = NoView

\* a stage of parse_library ends: in an exception, or with the next stage due
OuterStep(stage, raised, next, p, crypt_size) ==
  /\ outer' = [outer EXCEPT !.stages = Append(@, stage), !.crypt_size = crypt_size]
  /\ err' = raised
  /\ pc' = IF raised = "" THEN next ELSE "raised"
  /\ pos' = p
  /\ UNCHANGED <<bufLen, tz_offset, itemHdr, hsma, sections, sub, itemsLeft, cur, bomasLeft, onDisk, view>>

\* a variant of the length test that accepts every declared length
LengthMismatch_never(n, file_len) == FALSE

\* `len(library_data) != file_len`
LengthMismatch(n, file_len) == n # file_len

\* parse_library from the open file to the length check: the header struct, the
\* signature, `len(library_data) != file_len`
CheckOuterHeader ==
  /\ pc = "open"
  /\ OuterStep("header",
               IF ~CanUnpack(bufLen, pos, OuterHeaderSize(outer.dialect)) THEN "struct.error"
               ELSE IF outer.header # OuterSignature(outer.dialect) THEN "ValueError: signature"
               ELSE IF LengthMismatch(bufLen, outer.file_len) THEN "ValueError: File length not matching"
               ELSE "",
               "fields", pos, outer.crypt_size)

\* the first of the header fields that cannot be read whole, 0 if all can
FirstUnreadable(dialect, n, p) ==
  LET offsets == OuterFieldOffsets(dialect)
      bad == {i \in 1..Len(offsets) : ~CanUnpack(n, p + offsets[i], Size_I)}
  IN IF bad = {} THEN 0 ELSE CHOOSE i \in bad : \A j \in bad : i <= j

\* crypt_size = file_len - header_len, capped at max_crypt_size
CryptSize(file_len, header_len, max_crypt_size) == Min(file_len - header_len, max_crypt_size)

\* parse_library from the version string to reader.advance(header_len)
ReadOuterFields ==
  /\ pc = "fields"
  /\ IF ~outer.version_decodes
     THEN OuterStep("fields", "UnicodeDecodeError", "decrypt", pos, outer.crypt_size)
     ELSE IF FirstUnreadable(outer.dialect, bufLen, pos) # 0
     THEN OuterStep("fields", "struct.error", "decrypt", pos, outer.crypt_size)
     ELSE OuterStep("fields", "", "decrypt", pos + outer.header_len,
                    CryptSize(outer.file_len, outer.header_len, outer.max_crypt_size))

\* a variant of the key test that accepts every key
BadKey_never(key_len) == FALSE

\* `len(key) != 16`
BadKey(key_len) == key_len # AesKeyLen

\* utils.itlp_decrypt(reader.read_bytes(length=crypt_size), key): the key test,
\* then AES-ECB without padding, whose finalize() raises ValueError on a length
\* that is no multiple of the block length
ItlpDecrypt(encrypted_len, key_len) ==
  IF BadKey(key_len) THEN "ValueError: Key must be 16 bytes"
  ELSE IF encrypted_len % AesBlockLen # 0 THEN "ValueError: not a multiple of the block length"
  ELSE ""

Decrypt ==
  /\ pc = "decrypt"
  /\ OuterStep("decrypt",
               ItlpDecrypt(SliceLen(bufLen, pos, pos + outer.crypt_size), outer.key_len),
               "inflate", pos, outer.crypt_size)

\* zlib.decompress(buffer)
Inflate ==
  /\ pc = "inflate"
  /\ OuterStep("inflate", IF outer.inflates THEN "" ELSE "zlib.error", "parse", pos,
               outer.crypt_size)

\* the section loop over the decompressed buffer (musicdb: while the cursor is
\* before the end; itl: num_msdh times), which returns the library or raises
\* with what the buffer holds
ParseSections ==
  /\ pc = "parse"
  /\ \E raised \in {"", "ValueError"} :
       /\ (outer.dialect = "itl" /\ outer.num_msdh = 0) => raised = ""
       /\ OuterStep("sections", raised, "returned", pos, outer.crypt_size)

NextOuter ==
  \/ CheckOuterHeader
  \/ ReadOuterFields
  \/ Decrypt
  \/ Inflate
  \/ ParseSections

SpecOuter == InitOuter /\ [][NextOuter]_vars

\* ------------------------------------------------------ itl: enumerations
\* class BlockType(IntEnum), itl/parsing_types.py:7
BlockType ==
  { [enum |-> "BlockType", name |-> <<"M","L","T","H","_","T","R","A","C","K","_","M","A","S","T","E","R">>, value |-> 1],
    [enum |-> "BlockType", name |-> <<"M","L","P","H","_","P","L","A","Y","L","I","S","T","_","M","A","S","T","E","R">>, value |-> 2],
    [enum |-> "BlockType", name |-> <<"B","I","N","A","R","Y","_","U","N","K">>, value |-> 3],
    [enum |-> "BlockType", name |-> <<"L","I","B","R","A","R","Y","_","L","O","C","A","T","I","O","N">>, value |-> 4],
    [enum |-> "BlockType", name |-> <<"M","L","A","H","_","A","L","B","U","M","_","C","O","L","L","E","C","T","I","O","N">>, value |-> 9],
    [enum |-> "BlockType", name |-> <<"M","L","I","H","_","A","R","T","I","S","T">>, value |-> 11],
    [enum |-> "BlockType", name |-> <<"M","H","G","H","_","L","I","B","R","A","R","Y","_","I","N","F","O">>, value |-> 12],
    [enum |-> "BlockType", name |-> <<"M","L","T","H","_","T","R","A","C","K">>, value |-> 13],
    [enum |-> "BlockType", name |-> <<"M","L","P","H","_","T","R","A","C","K">>, value |-> 14],
    [enum |-> "BlockType", name |-> <<"M","L","R","H","_","U","N","K">>, value |-> 15],
    [enum |-> "BlockType", name |-> <<"M","F","D","H","_","O","U","T","E","R","_","E","N","V","E","L","O","P","E">>, value |-> 16],
    [enum |-> "BlockType", name |-> <<"X","L","M">>, value |-> 19],
    [enum |-> "BlockType", name |-> <<"M","L","Q","H","_","U","N","K">>, value |-> 20],
    [enum |-> "BlockType", name |-> <<"M","L","S","H","_","U","N","K">>, value |-> 21],
    [enum |-> "BlockType", name |-> <<"S","T","S","H","_","U","N","K">>, value |-> 23] }

\* class MhohFlexType(IntEnum), itl/parsing_types.py:37
MhohFlexType ==
  { [enum |-> "MhohFlexType", name |-> <<"T","R","A","C","K","_","T","I","T","L","E">>, value |-> 2],
    [enum |-> "MhohFlexType", name |-> <<"A","L","B","U","M","_","T","I","T","L","E">>, value |-> 3],
    [enum |-> "MhohFlexType", name |-> <<"A","R","T","I","S","T">>, value |-> 4],
    [enum |-> "MhohFlexType", name |-> <<"G","E","N","R","E">>, value |-> 5],
    [enum |-> "MhohFlexType", name |-> <<"K","I","N","D">>, value |-> 6],
    [enum |-> "MhohFlexType", name |-> <<"C","O","M","M","E","N","T","S">>, value |-> 8],
    [enum |-> "MhohFlexType", name |-> <<"C","A","T","E","G","O","R","Y">>, value |-> 9],
    [enum |-> "MhohFlexType", name |-> <<"L","O","C","A","L","_","P","A","T","H">>, value |-> 11],
    [enum |-> "MhohFlexType", name |-> <<"C","O","M","P","O","S","E","R">>, value |-> 12],
    [enum |-> "MhohFlexType", name |-> <<"N","A","T","I","V","E","_","F","I","L","E","P","A","T","H">>, value |-> 13],
    [enum |-> "MhohFlexType", name |-> <<"G","R","O","U","P","I","N","G">>, value |-> 14],
    [enum |-> "MhohFlexType", name |-> <<"S","H","O","R","T","_","D","E","S","C","R","I","P","T","I","O","N">>, value |-> 18],
    [enum |-> "MhohFlexType", name |-> <<"F","U","L","L","_","D","E","S","C","R","I","P","T","I","O","N">>, value |-> 22],
    [enum |-> "MhohFlexType", name |-> <<"T","V","_","S","H","O","W","_","T","I","T","L","E">>, value |-> 24],
    [enum |-> "MhohFlexType", name |-> <<"E","P","I","S","O","D","E","_","I","D">>, value |-> 25],
    [enum |-> "MhohFlexType", name |-> <<"A","L","B","U","M","_","A","R","T","I","S","T">>, value |-> 27],
    [enum |-> "MhohFlexType", name |-> <<"T","V","_","R","A","T","I","N","G">>, value |-> 28],
    [enum |-> "MhohFlexType", name |-> <<"X","M","L","_","B","L","O","C","K">>, value |-> 29],
    [enum |-> "MhohFlexType", name |-> <<"S","O","R","T","_","T","R","A","C","K","_","N","A","M","E">>, value |-> 30],
    [enum |-> "MhohFlexType", name |-> <<"S","O","R","T","_","A","L","B","U","M">>, value |-> 31],
    [enum |-> "MhohFlexType", name |-> <<"S","O","R","T","_","A","R","T","I","S","T">>, value |-> 32],
    [enum |-> "MhohFlexType", name |-> <<"S","O","R","T","_","A","L","B","U","M","_","A","R","T","I","S","T">>, value |-> 33],
    [enum |-> "MhohFlexType", name |-> <<"S","O","R","T","_","C","O","M","P","O","S","E","R">>, value |-> 34],
    [enum |-> "MhohFlexType", name |-> <<"P","O","D","C","A","S","T","_","R","S","S","_","U","R","L">>, value |-> 37],
    [enum |-> "MhohFlexType", name |-> <<"E","M","I","_","U","N","K","N","O","W","N">>, value |-> 43],
    [enum |-> "MhohFlexType", name |-> <<"C","O","P","Y","R","I","G","H","T">>, value |-> 46],
    [enum |-> "MhohFlexType", name |-> <<"A","L","T","E","R","N","A","T","E","_","D","E","S","C","R","I","P","T","I","O","N">>, value |-> 51],
    [enum |-> "MhohFlexType", name |-> <<"U","N","K","N","O","W","N","_","3","4">>, value |-> 52],
    [enum |-> "MhohFlexType", name |-> <<"P","O","D","C","A","S","T","_","E","P","I","S","O","D","E","_","U","R","L">>, value |-> 57],
    [enum |-> "MhohFlexType", name |-> <<"P","O","D","C","A","S","T","_","F","E","E","D","_","U","R","L">>, value |-> 58],
    [enum |-> "MhohFlexType", name |-> <<"P","U","R","C","H","A","S","E","R","_","E","M","A","I","L">>, value |-> 59],
    [enum |-> "MhohFlexType", name |-> <<"P","U","R","C","H","A","S","E","R","_","N","A","M","E">>, value |-> 60],
    [enum |-> "MhohFlexType", name |-> <<"W","O","R","K","_","N","A","M","E">>, value |-> 63],
    [enum |-> "MhohFlexType", name |-> <<"M","O","V","E","M","E","N","T","_","N","A","M","E">>, value |-> 64],
    [enum |-> "MhohFlexType", name |-> <<"P","L","A","Y","L","I","S","T","_","N","A","M","E">>, value |-> 100],
    [enum |-> "MhohFlexType", name |-> <<"P","O","D","C","A","S","T","_","T","I","T","L","E">>, value |-> 200],
    [enum |-> "MhohFlexType", name |-> <<"A","L","B","U","M","_","M","I","A","H">>, value |-> 300],
    [enum |-> "MhohFlexType", name |-> <<"A","L","B","U","M","_","A","R","T","I","S","T","_","M","I","A","H">>, value |-> 301],
    [enum |-> "MhohFlexType", name |-> <<"A","L","B","U","M","_","A","R","T","I","S","T","_","M","I","A","H","_","2">>, value |-> 302],
    [enum |-> "MhohFlexType", name |-> <<"S","E","R","I","E","S","_","T","I","T","L","E","_","M","I","A","H">>, value |-> 304],
    [enum |-> "MhohFlexType", name |-> <<"F","E","E","D","_","U","R","L","_","M","I","A","H">>, value |-> 305],
    [enum |-> "MhohFlexType", name |-> <<"A","R","T","I","S","T","_","M","I","A","H">>, value |-> 400],
    [enum |-> "MhohFlexType", name |-> <<"S","O","R","T","_","A","R","T","I","S","T","_","M","I","A","H">>, value |-> 401],
    [enum |-> "MhohFlexType", name |-> <<"U","U","I","D","_","U","N","K","N","O","W","N","_","F","8">>, value |-> 504],
    [enum |-> "MhohFlexType", name |-> <<"U","U","I","D","_","U","N","K","N","O","W","N","_","F","9">>, value |-> 505],
    [enum |-> "MhohFlexType", name |-> <<"L","I","B","R","A","R","Y","_","O","W","N","E","R">>, value |-> 506],
    [enum |-> "MhohFlexType", name |-> <<"L","I","B","R","A","R","Y","_","N","A","M","E">>, value |-> 508],
    [enum |-> "MhohFlexType", name |-> <<"T","R","A","C","K","_","T","I","T","L","E","_","E","X","T">>, value |-> 702],
    [enum |-> "MhohFlexType", name |-> <<"A","R","T","I","S","T","_","A","L","B","U","M","_","C","O","M","B","I","N","E","D">>, value |-> 703] }

\* class MhohNarrowType(IntEnum), itl/parsing_types.py:105
MhohNarrowType ==
  { [enum |-> "MhohNarrowType", name |-> <<"P","O","D","C","A","S","T","_","E","P","I","S","O","D","E","_","U","R","L">>, value |-> 19],
    [enum |-> "MhohNarrowType", name |-> <<"A","R","T","_","X","M","L","_","B","L","O","C","K">>, value |-> 54],
    [enum |-> "MhohNarrowType", name |-> <<"D","O","W","N","L","O","A","D","_","X","M","L","_","B","L","O","C","K">>, value |-> 56],
    [enum |-> "MhohNarrowType", name |-> <<"D","I","S","P","L","A","Y","_","A","R","T","_","X","M","L","_","B","L","O","C","K">>, value |-> 109],
    [enum |-> "MhohNarrowType", name |-> <<"S","T","O","R","E","_","A","R","T","_","U","R","L","_","X","M","L","_","B","L","O","C","K">>, value |-> 402],
    [enum |-> "MhohNarrowType", name |-> <<"L","O","N","G","_","X","M","L","_","B","L","O","C","K">>, value |-> 514],
    [enum |-> "MhohNarrowType", name |-> <<"S","M","A","R","T","_","P","L","A","Y","L","I","S","T","_","C","R","I","T","E","R","I","A","_","X","M","L","_","B","L","O","C","K">>, value |-> 700],
    [enum |-> "MhohNarrowType", name |-> <<"T","V","_","D","I","S","P","L","A","Y","_","X","M","L","_","B","L","O","C","K">>, value |-> 800] }

\* class MhohOtherType(IntEnum), itl/parsing_types.py:118
MhohOtherType ==
  { [enum |-> "MhohOtherType", name |-> <<"R","E","S","O","L","U","T","I","O","N">>, value |-> 36],
    [enum |-> "MhohOtherType", name |-> <<"B","O","O","K">>, value |-> 66] }

\* class ListSize(IntEnum), itl/parsing_types.py:123
ListSize ==
  { [enum |-> "ListSize", name |-> <<"S","M","A","L","L">>, value |-> 1],
    [enum |-> "ListSize", name |-> <<"M","E","D","I","U","M">>, value |-> 2],
    [enum |-> "ListSize", name |-> <<"L","A","R","G","E">>, value |-> 3] }

\* class StringType(IntEnum), itl/parsing_types.py:131
StringType ==
  { [enum |-> "StringType", name |-> <<"U","R","I","_","U","T","F","8">>, value |-> 0],
    [enum |-> "StringType", name |-> <<"W","I","D","E","_","U","T","F","1","6">>, value |-> 1],
    [enum |-> "StringType", name |-> <<"E","S","C","A","P","E","D","_","U","R","I">>, value |-> 2],
    [enum |-> "StringType", name |-> <<"N","A","R","R","O","W","_","U","T","F","8">>, value |-> 3] }

\* BlockType members by value, itl/parsing_types.py:10-24
MLTH_TRACK_MASTER == 1
MLPH_PLAYLIST_MASTER == 2
BINARY_UNK == 3
LIBRARY_LOCATION == 4
MLAH_ALBUM_COLLECTION == 9
MLIH_ARTIST == 11
MHGH_LIBRARY_INFO == 12
MLTH_TRACK == 13
MLPH_TRACK == 14
MLRH_UNK == 15
MFDH_OUTER_ENVELOPE == 16
XLM == 19
MLQH_UNK == 20
MLSH_UNK == 21
STSH_UNK == 23
\* MhohOtherType members by value
RESOLUTION == 36
BOOK == 66

\* BlockType.unk_types()
UnkTypes == {BINARY_UNK, MLRH_UNK, MLQH_UNK, MLSH_UNK, STSH_UNK}

\* ------------------------------------------------------------ itl: parser
\* The itl parser runs on the variables of the musicdb parser: `outer` holds
\* num_msdh, include_unk and the iterations parse_library's loop has left,
\* `hsma` the msdh at hand, `sections` parse_library's `blocks`, `sub` the list
\* a list parser is building, `itemsLeft` its iterations left, `cur` the item at
\* hand with its mhohs and mtphs, `bomasLeft` the iterations left in the item's
\* mhoh loop, and `onDisk` the blocks the mtph scan has read, each with the
\* cursor it was read at.

Size_4sIIII == 20
\* the width of read_uint8 and read_uint16
Size_B == 1
Size_H == 2

\* the list parser a block type is dispatched to: the signature of its list
\* header and the kind of its items; "" for the other block types
ItlListSignature(block_type) ==
  IF block_type \in {MLTH_TRACK, MLTH_TRACK_MASTER} THEN "mlth"
  ELSE IF block_type \in {MLPH_TRACK, MLPH_PLAYLIST_MASTER} THEN "mlph"
  ELSE IF block_type = MLAH_ALBUM_COLLECTION THEN "mlah"
  ELSE IF block_type = MLIH_ARTIST THEN "mlih"
  ELSE ""

ItlItemSignature(list_signature) ==
  IF list_signature = "mlth" THEN "mith"
  ELSE IF list_signature = "mlph" THEN "miph"
  ELSE IF list_signature = "mlah" THEN "miah"
  ELSE "miih"

\* the struct an item parser unpacks first (miah reads two fields instead), and
\* the fields it reads at fixed offsets before it skips its header
ItlItemHeaderSize(kind) ==
  IF kind \in {"mith", "miph"} THEN Size_4sIIII ELSE Size_4sIII

ItlItemFieldReads(kind) ==
  IF kind = "mith"
  THEN << <<32, Size_I>>, <<76, Size_I>>, <<100, Size_I>>, <<108, Size_B>>, <<110, Size_B>>,
          <<120, Size_I>>, <<128, Size_Q>> >>
  ELSE IF kind = "miph" THEN << <<440, Size_Q>>, <<570, Size_H>>, <<3392, Size_I>> >>
  ELSE IF kind = "miah" THEN << <<4, Size_I>>, <<12, Size_I>> >>
  ELSE << >>

\* every read of a list of <<offset, size>> reads succeeds at cursor p
CanReadAll(reads, n, p) ==
  \A i \in 1..Len(reads) : CanUnpack(n, p + reads[i][1], reads[i][2])

\* the bytes an item header needs behind the cursor
ItlItemExtent(kind) ==
  LET reads == ItlItemFieldReads(kind)
      ends == {ItlItemHeaderSize(kind)} \cup {reads[i][1] + reads[i][2] : i \in 1..Len(reads)}
  IN CHOOSE e \in ends : \A f \in ends : f <= e

\* parsing_types.MhohDataContainer
MhohDataContainer(type, value) == [type |-> type, value |-> value]

\* parsing_types.MithTrack, MiphPlaylist, MhghLibrarySettings, Msdh
MithTrack(h, mhohs) ==
  [ kind |-> "MithTrack", persistent_id |-> h.persistent_id, id |-> h.id, mhohs |-> mhohs ]
MiphPlaylist(h, mhohs, identifiers) ==
  [ kind |-> "MiphPlaylist", persistent_id |-> h.persistent_id, id |-> h.id,
    mhohs |-> mhohs, identifiers |-> identifiers ]
MhghLibrarySettings(list_size, mhohs) ==
  [ kind |-> "MhghLibrarySettings", list_size |-> list_size, mhohs |-> mhohs ]
Msdh(block_type, sub_block) == [block_type |-> block_type, sub_block |-> sub_block]

\* _itlp_parse_mhoh on the block m at cursor p of a buffer of n bytes: the
\* exception, or the container (None for a BOOK and for an unknown subtype) and
\* the cursor behind the block
ItlpParseMhoh(m, n, p) ==
  LET done(container) == [raised |-> "", container |-> container, pos |-> p + m.section_len]
      fail(e) == [raised |-> e, container |-> None, pos |-> p]
  IN IF ~CanUnpack(n, p, Size_4sIII) THEN fail("struct.error")
     ELSE IF m.header # "mhoh" THEN fail("ValueError: signature")
     ELSE IF HasValue(MhohFlexType, m.subtype)
     THEN IF ~CanUnpack(n, p + 24, Size_II) THEN fail("struct.error")
          ELSE IF ~HasValue(StringType, m.string_type)
          THEN fail("ValueError: not a valid StringType")
          ELSE done(Some(MhohDataContainer(Member(MhohFlexType, m.subtype), m.data)))
     ELSE IF HasValue(MhohNarrowType, m.subtype)
     THEN done(Some(MhohDataContainer(Member(MhohNarrowType, m.subtype), m.data)))
     ELSE IF m.subtype = BOOK THEN done(None)
     ELSE IF m.subtype = RESOLUTION
     THEN IF ~CanUnpack(n, p + 24, Size_II) THEN fail("struct.error")
          ELSE done(Some(MhohDataContainer(Member(MhohOtherType, RESOLUTION),
                                           ToStr(m.vertical) \o <<"x">> \o ToStr(m.horizontal))))
     ELSE done(None)

\* ------------------------------------------------------------ itl: inputs
MaxScanUnits == 3

\* the mhoh counts an item or the library info declares
DrawnMhohCounts == {0, 1}

\* an item header long enough for the fields the item parser reads
ItlHeaderLen(kind) == Units(CeilUnits(ItlItemExtent(kind)))

\* the msdh blocks drawn: every block type of the enumeration and one that is
\* not in it, with a whole header; and one block with another signature
BlankMsdh == [header |-> "msdh", header_len |-> Unit, data_len |-> Unit, block_type |-> 0]
DrawnBlockTypes == {m.value : m \in BlockType} \cup {5}
DrawnMsdhs ==
  {[BlankMsdh EXCEPT !.block_type = t, !.data_len = Units(k)] :
     t \in DrawnBlockTypes, k \in 1..2}
  \cup {[BlankMsdh EXCEPT !.header = "mhoh", !.block_type = MLRH_UNK]}

\* the list headers drawn for a list signature
DrawnItlLists(signature) ==
  {[header |-> h, header_len |-> Unit, num |-> num] :
     h \in {signature, "msdh"}, num \in 0..1}

\* the item headers drawn for an item kind; a miph declares its mtph count
BlankItlItem ==
  [ header |-> "", header_len |-> 0, data_len |-> 0, num_mhoh |-> 0, num_mtph |-> 0,
    persistent_id |-> 1, id |-> 1 ]
DrawnItlItems(kind) ==
  {[BlankItlItem EXCEPT !.header = h, !.header_len = ItlHeaderLen(kind),
                        !.data_len = ItlHeaderLen(kind) + Units(k),
                        !.num_mhoh = num_mhoh, !.num_mtph = num_mtph] :
     h \in {kind} \cup (IF kind = "miah" THEN {} ELSE {"msdh"}),
     k \in 0..MaxScanUnits, num_mhoh \in DrawnMhohCounts,
     num_mtph \in (IF kind = "miph" THEN 0..MaxCount ELSE {0}) }

\* the mhoh blocks drawn: one subtype of each enumeration, a BOOK, a RESOLUTION
\* and an unknown subtype; one with a string type that is none; one that is no mhoh
BlankMhoh ==
  [ header |-> "mhoh", section_len |-> Unit, subtype |-> 2, string_type |-> 1,
    data |-> <<"a">>, vertical |-> 1, horizontal |-> 2 ]
DrawnMhohs ==
  {[BlankMhoh EXCEPT !.subtype = s] : s \in {2, 19, BOOK, RESOLUTION, 1}}
  \cup {[BlankMhoh EXCEPT !.string_type = 9], [BlankMhoh EXCEPT !.header = "mtph"]}

\* the blocks drawn where the mtph scan reads a tag: an mtph with its header
\* length and track identifier, an mhoh with its section length, and a block
\* with another tag, whose length is read where an mtph has its header length
DrawnScanBlocks ==
  {[header |-> "mtph", len |-> Units(k), identifier |-> i] : k \in 0..1, i \in DrawnTrackIds}
  \cup {[header |-> h, len |-> Units(k), identifier |-> 0] : h \in {"mhoh", "mith"}, k \in 0..1}

\* the decompressed buffers drawn: short ones, and ones that hold an msdh, a
\* list header, a miph header and some blocks behind it
DrawnItlBufLens ==
  {Units(k) : k \in 0..MaxBufUnits}
  \cup {Units(2 + k) + ItlHeaderLen("miph") : k \in 0..MaxScanUnits}

\* ----------------------------------------------------------- itl: actions
InitItl ==
  /\ bufLen \in DrawnItlBufLens
  /\ tz_offset \in DrawnTzOffsets
  /\ outer \in {[dialect |-> "itl", stages |-> <<>>, num_msdh |-> n, include_unk |-> u,
                 msdh_left |-> n] : n \in DrawnMsdhCounts, u \in BOOLEAN}
  /\ itemHdr = NoItemHeader
  /\ pc = "msdh"
  /\ pos = 0
  /\ err = ""
  /\ hsma = NoHsma
  /\ sections = <<>>
  /\ sub = <<>>
  /\ itemsLeft = 0
  /\ cur = NoItem
  /\ bomasLeft = 0
  /\ onDisk = <<>>
  /\ view = NoView

\* an exception leaves the itl parse; where the block type was not dispatched,
\* onDisk keeps the msdh header read
ItlRaise(e, p) ==
  /\ Raise(e, p, onDisk)
  /\ UNCHANGED <<bufLen, tz_offset, itemHdr, outer, view>>

\* _itlp_parse_msdh returns Msdh(BlockType(block_type), sub_block) with the
\* cursor at p, and parse_library's loop appends it unless it is of an unknown
\* type and include_unk is off
MsdhReturn(block_type, sub_block, p) ==
  /\ pc' = "msdh"
  /\ pos' = p
  /\ sections' = IF block_type \in UnkTypes /\ ~outer.include_unk THEN sections
                 ELSE Append(sections, Msdh(Member(BlockType, block_type), sub_block))
  /\ outer' = [outer EXCEPT !.msdh_left = @ - 1]
  /\ hsma' = NoHsma
  /\ sub' = <<>>
  /\ itemsLeft' = 0
  /\ cur' = NoItem
  /\ bomasLeft' = 0
  /\ onDisk' = <<>>
  /\ UNCHANGED <<bufLen, tz_offset, itemHdr, err, view>>

\* a sub-parser of _itlp_parse_msdh starts at cursor p
MsdhDispatch(h, next, p) ==
  /\ pc' = next
  /\ pos' = p
  /\ hsma' = [NoHsma EXCEPT !.start = pos, !.section_type = h.block_type,
                            !.section_len = h.data_len, !.next_section_offset = h.header_len]
  /\ UNCHANGED <<bufLen, tz_offset, itemHdr, outer, err, sections, sub, itemsLeft, cur, bomasLeft,
                 onDisk, view>>

\* one iteration of parse_library's `for _ in range(num_msdh)`: _itlp_parse_msdh
\* from its header to the dispatch on block_type.  The blocks without children
\* are done in this step: LIBRARY_LOCATION steps back over the header and
\* _parse_library_location reads it again (total_len is the msdh's data_len),
\* the four skipped types advance by data_len - header_len
ItlpParseMsdh ==
  /\ pc = "msdh"
  /\ outer.msdh_left > 0
  /\ IF ~CanUnpack(bufLen, pos, Size_4sIII)
     THEN ItlRaise("struct.error", pos)
     ELSE \E h \in DrawnMsdhs :
            LET t == h.block_type
                p == pos + h.header_len
            IN IF h.header # "msdh" THEN ItlRaise("ValueError: signature", pos)
               ELSE IF ItlListSignature(t) # "" THEN MsdhDispatch(h, "itl_list", p)
               ELSE IF t = MFDH_OUTER_ENVELOPE THEN MsdhDispatch(h, "mfdh", p)
               ELSE IF t = MHGH_LIBRARY_INFO THEN MsdhDispatch(h, "mhgh", p)
               ELSE IF t = LIBRARY_LOCATION
               THEN MsdhReturn(t, Some(<<"location">>),
                               (p - h.header_len) + h.header_len + (h.data_len - h.header_len))
               ELSE IF t \in {MLRH_UNK, MLSH_UNK, STSH_UNK, MLQH_UNK}
               THEN MsdhReturn(t, None, p + (h.data_len - h.header_len))
               ELSE /\ Raise("ValueError: Unknown msdh block type", p, <<h>>)
                    /\ UNCHANGED <<bufLen, tz_offset, itemHdr, outer, view>>

\* parse_library's loop has run num_msdh times: the RawLibrary is returned
ItlLibraryDone ==
  /\ pc = "msdh"
  /\ outer.msdh_left = 0
  /\ pc' = "returned"
  /\ UNCHANGED <<bufLen, tz_offset, itemHdr, outer, pos, err, hsma, sections, sub, itemsLeft, cur,
                 bomasLeft, onDisk, view>>

\* _parse_outer_envelope
ParseOuterEnvelope ==
  /\ pc = "mfdh"
  /\ IF ~CanUnpack(bufLen, pos, Size_4sI)
     THEN ItlRaise("struct.error", pos)
     ELSE \E header \in {"mfdh", "msdh"}, header_len \in {Unit} :
            IF header # "mfdh" THEN ItlRaise("ValueError: signature", pos)
            ELSE IF ~CanUnpack(bufLen, pos + 16, Size_B) THEN ItlRaise("struct.error", pos)
            ELSE MsdhReturn(hsma.section_type, Some(<<"version">>), pos + header_len)

\* _parse_library_info up to its mhoh loop
ParseLibraryInfo ==
  /\ pc = "mhgh"
  /\ IF ~CanUnpack(bufLen, pos, Size_4sII)
     THEN ItlRaise("struct.error", pos)
     ELSE \E header \in {"mhgh", "msdh"}, header_len \in {Unit}, num_mhoh \in DrawnMhohCounts,
             list_size \in {m.value : m \in ListSize} \cup {0} :
            IF header # "mhgh" THEN ItlRaise("ValueError: signature", pos)
            ELSE IF ~CanUnpack(bufLen, pos + 55, Size_B) THEN ItlRaise("struct.error", pos)
            ELSE /\ pc' = "itl_mhohs"
                 /\ pos' = pos + header_len
                 /\ cur' = [kind |-> "mhgh", list_size |-> list_size, mhohs |-> <<>>]
                 /\ bomasLeft' = num_mhoh
                 /\ UNCHANGED <<bufLen, tz_offset, itemHdr, outer, err, hsma, sections, sub, itemsLeft,
                                onDisk, view>>

\* _itlp_parse_track, _itlp_parse_playlist, _parse_album_collection and
\* _itlp_parse_artist up to their loop
ItlParseList ==
  /\ pc = "itl_list"
  /\ IF ~CanUnpack(bufLen, pos, Size_4sII)
     THEN ItlRaise("struct.error", pos)
     ELSE \E l \in DrawnItlLists(ItlListSignature(hsma.section_type)) :
            IF l.header # ItlListSignature(hsma.section_type)
            THEN ItlRaise("ValueError: signature", pos)
            ELSE /\ pc' = "itl_items"
                 /\ pos' = pos + l.header_len
                 /\ sub' = <<>>
                 /\ itemsLeft' = l.num
                 /\ UNCHANGED <<bufLen, tz_offset, itemHdr, outer, err, hsma, sections, cur, bomasLeft,
                                onDisk, view>>

\* _itlp_parse_mith, _itlp_parse_miph, _itlp_parse_miah and _itlp_parse_miih up
\* to their mhoh loop: the header, the signature (a miah has none checked), the
\* fields at fixed offsets, the advance past the header
ItlParseItem ==
  /\ pc = "itl_items"
  /\ itemsLeft > 0
  /\ LET kind == ItlItemSignature(ItlListSignature(hsma.section_type)) IN
     IF kind # "miah" /\ ~CanUnpack(bufLen, pos, ItlItemHeaderSize(kind))
     THEN ItlRaise("struct.error", pos)
     ELSE \E h \in DrawnItlItems(kind) :
            IF kind # "miah" /\ h.header # kind THEN ItlRaise("ValueError: signature", pos)
            ELSE IF ~CanReadAll(ItlItemFieldReads(kind), bufLen, pos)
            THEN ItlRaise("struct.error", pos)
            ELSE /\ pc' = "itl_mhohs"
                 /\ pos' = pos + h.header_len
                 /\ cur' = [ kind |-> kind, persistent_id |-> h.persistent_id, id |-> h.id,
                             expected_end_pos |-> pos + h.data_len, num_mtph |-> h.num_mtph,
                             mhohs |-> <<>>, mtphs |-> <<>> ]
                 /\ bomasLeft' = h.num_mhoh
                 /\ onDisk' = <<>>
                 /\ UNCHANGED <<bufLen, tz_offset, itemHdr, outer, err, hsma, sections, sub, itemsLeft,
                                view>>

\* one iteration of `for _ in range(num_mhoh)`: _itlp_parse_mhoh, its container
\* appended if it returned one
ItlParseMhohChild ==
  /\ pc = "itl_mhohs"
  /\ bomasLeft > 0
  /\ \E m \in (IF CanUnpack(bufLen, pos, Size_4sIII) THEN DrawnMhohs ELSE {BlankMhoh}) :
       LET r == ItlpParseMhoh(m, bufLen, pos) IN
       IF r.raised # "" THEN ItlRaise(r.raised, r.pos)
       ELSE /\ pos' = r.pos
            /\ cur' = IF IsNone(r.container) THEN cur
                      ELSE [cur EXCEPT !.mhohs = Append(@, Val(r.container))]
            /\ bomasLeft' = bomasLeft - 1
            /\ UNCHANGED <<bufLen, tz_offset, itemHdr, outer, pc, err, hsma, sections, sub, itemsLeft,
                           onDisk, view>>

\* an item is handed to its list parser, which appends it (a miah only if it
\* has containers, a miph only if _itlp_parse_miph returned one)
ItemReturn(appended, item) ==
  /\ pc' = "itl_items"
  /\ sub' = IF appended THEN Append(sub, item) ELSE sub
  /\ itemsLeft' = itemsLeft - 1
  /\ UNCHANGED <<bufLen, tz_offset, itemHdr, outer, pos, err, hsma, sections, cur, bomasLeft, onDisk,
                 view>>

\* after the mhoh loop: _itlp_parse_mith checks its end position and returns the
\* track; _itlp_parse_miah and _itlp_parse_miih return their containers;
\* _parse_library_info builds ListSize(list_size) and returns the settings;
\* _itlp_parse_miph goes on to its mtph scan
ItlMhohsDone ==
  /\ pc = "itl_mhohs"
  /\ bomasLeft = 0
  /\ IF cur.kind = "mhgh"
     THEN IF ~HasValue(ListSize, cur.list_size)
          THEN ItlRaise("ValueError: not a valid ListSize", pos)
          ELSE MsdhReturn(hsma.section_type,
                          Some(MhghLibrarySettings(Member(ListSize, cur.list_size), cur.mhohs)),
                          pos)
     ELSE IF cur.kind = "miph"
     THEN /\ pc' = "scan"
          /\ UNCHANGED <<bufLen, tz_offset, itemHdr, outer, pos, err, hsma, sections, sub, itemsLeft,
                         cur, bomasLeft, onDisk, view>>
     ELSE IF cur.kind = "mith"
     THEN IF EndMismatch(pos, cur.expected_end_pos)
          THEN ItlRaise("ValueError: end position", pos)
          ELSE ItemReturn(TRUE, MithTrack(cur, cur.mhohs))
     ELSE ItemReturn(cur.kind = "miih" \/ cur.mhohs # <<>>, cur.mhohs)

\* a variant of the scan in which a skipped mhoh takes an mtph slot
SkipMhoh_slot(mtphs) == Append(mtphs, 0)

\* the mtph list after an mhoh was skipped in the scan: as it was
SkipMhoh(mtphs) == mtphs

\* the block the scan reads at the cursor: the bytes of a buffer do not change,
\* so a read at the cursor of the last read finds the block found then
ScanBlocksAt(p, disk) ==
  IF disk # <<>> /\ disk[Len(disk)].at = p THEN {disk[Len(disk)].block} ELSE DrawnScanBlocks

\* one iteration of `while len(mtphs) < num_mtph`: the 4-byte tag at the cursor
\* (short or empty at the end of the buffer, which is no known tag), then
\* _itlp_parse_mtph, or the skip of an mhoh by its section length at offset 8,
\* or the skip of an unknown block by the length at offset 4.  onDisk takes
\* the block read (once, when a skip left the cursor where it was)
ScanStep ==
  /\ pc = "scan"
  /\ Len(cur.mtphs) < cur.num_mtph
  /\ \E b \in (IF CanUnpack(bufLen, pos, Size_I) THEN ScanBlocksAt(pos, onDisk)
               ELSE {[header |-> "", len |-> 0, identifier |-> 0]}) :
       LET read == [at |-> pos, block |-> b]
           disk == IF b.header # "mtph" /\ onDisk # <<>> /\ onDisk[Len(onDisk)] = read
                   THEN onDisk
                   ELSE Append(onDisk, read)
           step(p, mtphs) ==
             /\ pos' = p
             /\ cur' = [cur EXCEPT !.mtphs = mtphs]
             /\ onDisk' = disk
             /\ UNCHANGED <<bufLen, tz_offset, itemHdr, outer, pc, err, hsma, sections, sub, itemsLeft,
                            bomasLeft, view>>
       IN IF b.header = "mtph"
          THEN IF ~CanUnpack(bufLen, pos, Size_4sI) \/ ~CanUnpack(bufLen, pos + 24, Size_I)
               THEN ItlRaise("struct.error", pos)
               ELSE step(pos + b.len, Append(cur.mtphs, b.identifier))
          ELSE IF b.header = "mhoh"
          THEN IF ~CanUnpack(bufLen, pos + 8, Size_I) THEN ItlRaise("struct.error", pos)
               ELSE step(pos + b.len, SkipMhoh(cur.mtphs))
          ELSE IF ~CanUnpack(bufLen, pos + 4, Size_I) THEN ItlRaise("struct.error", pos)
               ELSE step(pos + b.len, cur.mtphs)

\* _itlp_parse_miph after the scan: the end-position check, and the playlist
\* returned, or None when it has no mtph
MiphEnd ==
  /\ pc = "scan"
  /\ Len(cur.mtphs) >= cur.num_mtph
  /\ IF EndMismatch(pos, cur.expected_end_pos)
     THEN ItlRaise("ValueError: end position", pos)
     ELSE ItemReturn(cur.mtphs # <<>>, MiphPlaylist(cur, cur.mhohs, cur.mtphs))

\* a list parser returns its list after the last item
ItlListDone ==
  /\ pc = "itl_items"
  /\ itemsLeft = 0
  /\ MsdhReturn(hsma.section_type, Some(sub), pos)

NextItl ==
  \/ ItlpParseMsdh
  \/ ItlLibraryDone
  \/ ParseOuterEnvelope
  \/ ParseLibraryInfo
  \/ ItlParseList
  \/ ItlParseItem
  \/ ItlParseMhohChild
  \/ ItlMhohsDone
  \/ ScanStep
  \/ MiphEnd
  \/ ItlListDone

SpecItl == InitItl /\ [][NextItl]_vars
\* ===================================================================== claims

\* C1: _parse_hsma returns a section only when the cursor after the sub-parser
\* stands at (cursor at the section's start + declared section length); at any
\* other cursor the parse fails, so a section is appended with the cursor exactly
\* at its declared end.
C1_SectionEndsAtDeclaredEnd ==
  [][ pc = "hsma_end" =>
        IF pos = hsma.start + hsma.section_len
        THEN \/ pc' = "raised"
             \/ /\ Len(sections') = Len(sections) + 1
                /\ pos' = hsma.start + hsma.section_len
        ELSE pc' = "raised" /\ sections' = <<>> ]_vars

\* a composite section has been parsed and appended, the cursor past its payload
C1_Witness ==
  /\ pc = "sections"
  /\ pos > 0
  /\ \E i \in 1..Len(sections) : ~IsNone(sections[i].sub_section)

\* C2: a boma container whose subtype is in no subtype table is parsed without
\* error: no container is returned, the parent is left as it was, and the cursor
\* advances by the declared section length.
C2_UnknownBomaSkipped ==
  [][ LET b == onDisk'[Len(onDisk')]
          known == BomaWideCharType \cup BomaUtf8Short \cup BomaUtf8Long \cup BomaBookType
                     \cup BomaTrackNumericsType \cup BomaOtherType \cup BomaPlaylistType
      IN ( /\ pc = "bomas" /\ bomasLeft > 0
           /\ CanUnpack(bufLen, pos, Size_4sIII)
           /\ Len(onDisk') = Len(onDisk) + 1
           /\ b.header = "boma"
           /\ ~HasValue(known, b.boma_subtype) )
         => ( /\ pc' = "bomas"
              /\ cur' = cur
              /\ pos' = pos + b.section_len ) ]_vars

\* C3: after any sequence of Track numerics 2 containers applied by
\* _parse_boma_track_numerics, a track whose play_count is 0 has no
\* date_last_played.
C3_NoPlaysNoLastPlayed ==
  ( /\ pc = "numerics"
    /\ \A i \in 1..Len(onDisk) :
         /\ onDisk[i].via = "_parse_boma_track_numerics"
         /\ onDisk[i].boma.boma_subtype = Attr(BomaTrackNumericsType, N_TRACK_NUMERICS_2).value
    /\ cur.play_count = Some(0) )
  => IsNone(cur.date_last_played)

\* C4: when the children of a track item, parsed by _parse_boma, include Track
\* numerics 1 containers, every numerics-1 field of the track holds the value of
\* the first such container, a value of 0 included.
C4_FirstWriterWins ==
  LET is1(i) == onDisk[i].boma.boma_subtype = Attr(BomaTrackNumericsType, N_TRACK_NUMERICS_1).value
      first == CHOOSE i \in 1..Len(onDisk) : is1(i) /\ \A j \in 1..(i - 1) : ~is1(j)
  IN ( /\ pc \in {"numerics", "raised"}
       /\ bufLen >= BomaExtent(1, 0)
       /\ \A i \in 1..Len(onDisk) : onDisk[i].via = "_parse_boma"
       /\ \E i \in 1..Len(onDisk) : is1(i) )
     => ( /\ err = ""
          /\ \A k \in 1..Len(Numerics1Fields) :
               cur[Numerics1Fields[k].name] = Some(onDisk[first].boma.numerics[Numerics1Fields[k].name]) )

\* C5: an IPFA container among the children of a playlist item appends its
\* persistent track ID to the playlist's track-ID list, so the list holds one ID
\* per IPFA child in on-disk order, and the parse does not fail.
C5_IpfaAppendsTrackId ==
  [][ LET b == onDisk'[Len(onDisk')] IN
      ( /\ pc = "bomas" /\ bomasLeft > 0
        /\ cur.kind = "LpmaPlaylist"
        /\ Len(onDisk') = Len(onDisk) + 1
        /\ b.header = "boma"
        /\ b.boma_subtype = Attr(BomaPlaylistType, N_IPFA_PLAYLIST).value
        /\ b.signature = "ipfa"
        /\ CanUnpack(bufLen, pos + 40, Size_Q) )
      => ( /\ pc' = "bomas"
           /\ cur'.persistent_track_ids = Append(cur.persistent_track_ids, b.track_id) ) ]_vars

\* C6: for a library whose track master declares num_itma = 0 the parser builds
\* an empty track list, and get_tracks returns an empty sequence without an error.
C6_EmptyTrackList ==
  LET i == FirstSection(sections, ITMA_TRACK_MASTER) IN
  ( /\ view.op = "get_tracks"
    /\ i # 0
    /\ sections[i].sub_section = Some(<<>>) )
  => ( view.raised = "" /\ view.result = <<>> )

C8_PlaylistNameNonEmpty ==
  (view.op = "get_playlists" /\ view.raised = "")
  => \A a \in 1..Len(view.result) : view.result[a].name # EmptyStr

\* C9: every key of the metadata of a Track returned by get_tracks is lowercase,
\* and with ignore_xlm_block true no key starts with xlm_block.
C9_MetadataKeys ==
  (view.op = "get_tracks" /\ view.raised = "")
  => \A a \in 1..Len(view.result) :
       \A key \in DOMAIN view.result[a].metadata :
         /\ \A c \in 1..Len(key) : \A u \in 1..Len(UpperChars) : key[c] # UpperChars[u]
         /\ view.flag => ~(Len(key) >= 9 /\ SubSeq(key, 1, 9) = XlmBlock)

\* get_tracks with the default filter has returned a track that keeps a key and
\* whose raw containers include an XML block
C9_Witness ==
  LET i == FirstSection(sections, ITMA_TRACK_MASTER) IN
  /\ view.op = "get_tracks"
  /\ view.flag
  /\ view.raised = ""
  /\ \E a \in 1..Len(view.result) :
       /\ DOMAIN view.result[a].metadata # {}
       /\ \E k \in 1..Len(Val(sections[i].sub_section)[a].bomas) :
            Val(sections[i].sub_section)[a].bomas[k].type = Member(BomaUtf8Short, 54)

\* C10: the string get_library_location returns with include_file_prefix false
\* contains file://localhost/ at no position.
C10_NoFilePrefixAnywhere ==
  (view.op = "get_library_location" /\ ~view.flag /\ view.raised = "")
  => ~Contains(view.result, FilePrefix)


\* C11: URL-unescaping a library location is idempotent: the unescape of
\* get_library_location applied to what it returned (with the file prefix kept,
\* the unescaped stored value) gives that string again.
C11_UnquoteIdempotent ==
  (view.op = "get_library_location" /\ view.flag /\ view.raised = "")
  => Unquote(view.result) = view.result

\* C19: every date field of a Track or Playlist of the view layer is absent
\* exactly when the stored value is 0 or unset, whatever the tz_offset, and is
\* otherwise 1904-01-01 plus (stored seconds + tz_offset) seconds.
C19_DatesNormalized ==
  LET date(stored) == IF IsNone(stored) \/ Val(stored) = 0 THEN None
                      ELSE Some(Val(stored) + tz_offset)
      raw(section_type) == Val(sections[FirstSection(sections, section_type)].sub_section)
  IN /\ (view.op = "get_tracks" /\ view.raised = "") =>
          \A a \in 1..Len(view.result) :
            /\ view.result[a].date_added = date(raw(ITMA_TRACK_MASTER)[a].date_added)
            /\ view.result[a].date_modified = date(raw(ITMA_TRACK_MASTER)[a].date_modified)
            /\ view.result[a].date_last_played = date(raw(ITMA_TRACK_MASTER)[a].date_last_played)
     /\ (view.op = "get_playlists" /\ view.raised = "") =>
          \A a \in 1..Len(view.result) :
            \E k \in 1..Len(raw(LPMA_PLAYLIST_MASTER)) :
              /\ raw(LPMA_PLAYLIST_MASTER)[k].persistent_track_ids = view.result[a].persistent_track_ids
              /\ view.result[a].date_created = date(Some(raw(LPMA_PLAYLIST_MASTER)[k].date_created))
              /\ view.result[a].date_modified = date(Some(raw(LPMA_PLAYLIST_MASTER)[k].date_modified))

\* a track came back with one date absent (stored 0) and one date at the epoch
\* itself (stored seconds and tz_offset cancel), and a playlist with a date set
C19_Witness ==
  \/ /\ view.op = "get_tracks" /\ view.raised = ""
     /\ tz_offset # 0
     /\ \E a \in 1..Len(view.result) :
          /\ view.result[a].date_added = None
          /\ view.result[a].date_last_played = Some(0)
          /\ Val(sections[1].sub_section)[a].date_added = Some(0)
  \/ /\ view.op = "get_playlists" /\ view.raised = ""
     /\ tz_offset # 0
     /\ \E a \in 1..Len(view.result) :
          /\ view.result[a].date_created = Some(0)
          /\ view.result[a].date_modified = None

\* C15: an hsma section whose section-type tag is none of the known tags is
\* tolerated: when the cursor stands at the section's declared end, the step
\* that ends the section leaves no error, the cursor is the section's start
\* plus its declared length, and parsing goes on with the following sections.
C15_UnknownSectionTolerated ==
  [][(/\ pc = "hsma_end"
      /\ ~HasValue(SectionType, hsma.section_type)
      /\ pos = hsma.expected_end_pos)
     => /\ pc' = "sections"
        /\ err' = ""
        /\ pos' = hsma.start + hsma.section_len]_vars

\* C18: the star value of a track is floor(rating * 5 / 100) for every rating
\* in 0..100, and ItmaTrack.stars and Track.short_rating give the same value on
\* every rating.
C18_StarsFloor ==
  /\ view.op = "stars" =>
       /\ view.result = ShortRating(Itma2Track(cur, tz_offset, TRUE))
       /\ cur.rating <= RatingScale => view.result = (cur.rating * StarScale) \div RatingScale
  /\ view.op = "short_rating" =>
       /\ view.result = Stars(cur)
       /\ cur.rating <= RatingScale => view.result = (cur.rating * StarScale) \div RatingScale

\* stars read on a rating whose quotient has a fraction: 99 gives 4
C18_Witness ==
  /\ view.op = "stars"
  /\ cur.rating = 99
  /\ view.result = 4

\* C14: every read of the binary reader is bounds-checked: a read (a tuple, an
\* integer, or read_bytes with a length) whose byte range
\* [cursor + offset, cursor + offset + size) is not wholly inside the buffer
\* fails, and returns no truncated data.
C14_ReadsBoundsChecked ==
  (/\ view.op \in {"read", "read_int", "read_bytes"}
   /\ pos + view.result.offset + view.result.size > bufLen)
  => view.raised # ""

\* C12: in both dialects parse_library fails whenever the file length the outer
\* header declares differs from the number of bytes of the file, and it fails
\* before decryption, inflation or any section: once started, such a parse has
\* raised, with the header check its only stage.
C12_LengthMismatchFails ==
  (outer.dialect # "" /\ outer.file_len # bufLen /\ pc # "open")
  => /\ pc = "raised"
     /\ outer.stages = <<"header">>

\* a file with its header whole and its signature right whose declared length
\* is wrong was rejected by the length test
C12_Witness ==
  /\ outer.dialect = "itl"
  /\ outer.file_len # bufLen
  /\ err = "ValueError: File length not matching"
  /\ outer.stages = <<"header">>

\* C13: for a file with a valid outer header, a key that is not 16 bytes long
\* makes parse_library fail with the decryptor's key error: once the decrypt
\* stage has run the parse has raised that error, and no later stage runs.
C13_BadKeyFails ==
  (/\ outer.dialect # ""
   /\ outer.key_len # AesKeyLen
   /\ Len(outer.stages) >= 3)
  => /\ pc = "raised"
     /\ err = "ValueError: Key must be 16 bytes"
     /\ outer.stages = <<"header", "fields", "decrypt">>

\* a 17-byte key on a valid musicdb file was rejected by the decryptor
C13_Witness ==
  /\ outer.dialect = "musicdb"
  /\ outer.key_len = 17
  /\ outer.stages = <<"header", "fields", "decrypt">>
  /\ err = "ValueError: Key must be 16 bytes"

\* C16: _itlp_parse_msdh raises the unknown-block-type error only for a block
\* type that is no member of the BlockType enumeration.
C16_UnknownTypeOnlyForNonMembers ==
  err = "ValueError: Unknown msdh block type" => ~HasValue(BlockType, onDisk[1].block_type)

\* the identifiers of the mtph blocks among the blocks a scan has read, in order
RECURSIVE MtphIdentifiers(_)
MtphIdentifiers(disk) ==
  IF disk = <<>> THEN <<>>
  ELSE MtphIdentifiers(SubSeq(disk, 1, Len(disk) - 1))
       \o (IF disk[Len(disk)].block.header = "mtph" THEN <<disk[Len(disk)].block.identifier>>
           ELSE <<>>)

\* C17: in the mtph scan of a miph an mhoh is skipped by its section length and
\* takes no mtph slot: during the scan the collected identifiers are those of
\* the mtph blocks read, in on-disk order, and the cursor is behind the last
\* block read; a miph that returns has collected exactly num_mtph of them, its
\* cursor at its expected end, and its playlist holds these identifiers.
C17_MhohTakesNoSlot ==
  /\ pc = "scan" =>
       /\ cur.mtphs = MtphIdentifiers(onDisk)
       /\ onDisk # <<>> => pos = onDisk[Len(onDisk)].at + onDisk[Len(onDisk)].block.len
  /\ (pc = "itl_items" /\ cur.kind = "miph") =>
       /\ cur.mtphs = MtphIdentifiers(onDisk)
       /\ Len(cur.mtphs) = cur.num_mtph
       /\ pos = cur.expected_end_pos
       /\ cur.mtphs # <<>> =>
            /\ sub # <<>>
            /\ sub[Len(sub)].identifiers = MtphIdentifiers(onDisk)

\* a miph with num_mtph = 2 returned its playlist after an mtph, an mhoh and
\* another mtph
C17_Witness ==
  /\ pc = "itl_items"
  /\ cur.kind = "miph"
  /\ cur.num_mtph = 2
  /\ Len(onDisk) = 3
  /\ onDisk[1].block.header = "mtph"
  /\ onDisk[2].block.header = "mhoh"
  /\ onDisk[2].block.len > 0
  /\ onDisk[3].block.header = "mtph"
  /\ onDisk[3].block.identifier # onDisk[1].block.identifier
  /\ sub # <<>>
  /\ sub[Len(sub)].identifiers = <<onDisk[1].block.identifier, onDisk[3].block.identifier>>

\* C20: every iteration of the mtph scan of a miph (and of the section loop)
\* strictly advances the cursor, collects an entry, or fails, so that no
\* declared length of 0 makes the parser loop forever.
C20_IterationsProgress ==
  [][(pc = "scan" /\ Len(cur.mtphs) < cur.num_mtph)
     => \/ pc' = "raised"
        \/ pos' > pos
        \/ Len(cur'.mtphs) > Len(cur.mtphs)]_vars

\* C21: the byte string parse_library hands to itlp_decrypt has a length that
\* is a multiple of the AES block size: whenever the decrypt stage is due, the
\* crypt_size computed from the outer header, and the slice of crypt_size
\* bytes read behind the header, are multiples of 16.
C21_CryptSizeBlockMultiple ==
  pc = "decrypt" =>
    /\ outer.crypt_size % AesBlockLen = 0
    /\ SliceLen(bufLen, pos, pos + outer.crypt_size) % AesBlockLen = 0

\* C22: a list parsed from a list-header block holds exactly as many item
\* records as the header declares: the list starts empty with the declared
\* count of items to come, and every item that is parsed without an error
\* (one fewer to come) adds exactly one record to the list, also a playlist
\* without mtph entries and an album or artist item without containers.
C22_ListHoldsDeclaredCount ==
  [][(pc' # "raised" /\ itemsLeft' = itemsLeft - 1) => Len(sub') = Len(sub) + 1]_vars

N_SLST_SMART_PLAYLIST == <<"S","L","S","T","_","S","M","A","R","T","_","P","L","A","Y","L","I","S","T">>

\* C23: a playlist's is_smart flag is set when a smart-playlist marker (a boma
\* container of subtype SLST_SMART_PLAYLIST, 0xC9) is read among the children
\* of the playlist item: the step that reads the marker goes on with the
\* item's children and leaves the playlist at hand with is_smart true.
C23_SmartMarkerSetsFlag ==
  [][(/\ pc = "bomas"
      /\ cur.kind = "LpmaPlaylist"
      /\ Len(onDisk') = Len(onDisk) + 1
      /\ onDisk'[Len(onDisk')].header = "boma"
      /\ onDisk'[Len(onDisk')].boma_subtype = Attr(BomaPlaylistType, N_SLST_SMART_PLAYLIST).value)
     => /\ pc' = "bomas"
        /\ cur'.is_smart]_vars

\* C24: a track item (itma) or playlist item (lpma) is accepted only if the
\* cursor after its last boma child stands at the item's start plus the total
\* length its header declares: when the children of the last item of a section
\* are done and nothing that follows can fail (the cursor is at the section's
\* declared end and at the end of the buffer), the cursor is the item's start
\* plus its declared total length.
C24_ItemEndsAtDeclaredEnd ==
  (/\ pc = "bomas"
   /\ bomasLeft = 0
   /\ cur.kind \in {"ItmaTrack", "LpmaPlaylist"}
   /\ itemsLeft = 1
   /\ pos = hsma.expected_end_pos
   /\ pos >= bufLen)
  => pos = itemHdr.start + itemHdr.sections_len

\* the operations of the reader that read
ReaderReads == {"read", "read_int", "read_bytes", "read_bytes_to_end"}

\* C25: the frame condition of the binary reader: no call changes the buffer;
\* a read leaves the cursor where it was and the bytes it returns are those at
\* (cursor at call time + offset) and onwards; advance moves the cursor by
\* exactly its signed length, and nothing else moves it.
C25_ReaderFrame ==
  [][/\ onDisk' = onDisk
     /\ bufLen' = bufLen
     /\ view'.op \in ReaderReads =>
          /\ pos' = pos
          /\ Len(view'.result.data) <= view'.result.size
          /\ \A i \in 1..Len(view'.result.data) :
               view'.result.data[i] = onDisk[pos + view'.result.offset + i]
     /\ view'.op = "advance" => pos' = pos + view'.result.size
     /\ pos' # pos => view'.op = "advance"]_vars

\* a read at an offset was made with the cursor moved off the start, and
\* returned bytes; or the cursor was moved back by advance
C25_Witness ==
  \/ /\ view.op \in ReaderReads
     /\ pos > 0
     /\ view.result.offset > 0
     /\ view.raised = ""
     /\ Len(view.result.data) > 0
  \/ /\ view.op = "advance"
     /\ view.result.size < 0
     /\ pos > 0

ViewSectionType(op) ==
  IF op = "get_tracks" THEN ITMA_TRACK_MASTER
  ELSE IF op = "get_playlists" THEN LPMA_PLAYLIST_MASTER
  ELSE PLMA_LIBRARY_MASTER

\* the library that holds, of the sections of this type, only the one that
\* comes first on disk, and no other section
OnlyFirst(secs, section_type) ==
  LET is(i) == secs[i].section_type.value = section_type
      firsts == {i \in 1..Len(secs) : is(i) /\ \A j \in 1..(i - 1) : ~is(j)}
  IN IF firsts = {} THEN <<>> ELSE <<secs[CHOOSE i \in firsts : TRUE]>>

\* C27: the parsed library keeps every top-level section in on-disk order,
\* duplicates included: a section that is returned is appended behind the
\* sections parsed before it.  Each view operation leaves the raw library as
\* it was and uses only the first section of the type it asks for: its
\* outcome is the outcome of the same call on a library that holds that
\* section alone, so nothing held in a later section of the type appears.
C27_FirstSectionOnly ==
  [][/\ (pc = "hsma_end" /\ pc' = "sections") =>
          /\ Len(sections') = Len(sections) + 1
          /\ SubSeq(sections', 1, Len(sections)) = sections
          /\ sections'[Len(sections')].section_type.value = hsma.section_type
          /\ sections'[Len(sections')].sub_section = hsma.sub_section
     /\ pc = "done" =>
          LET alone == OnlyFirst(sections, ViewSectionType(view'.op))
              outcome == [raised |-> view'.raised, result |-> view'.result]
          IN /\ sections' = sections
             /\ tz_offset' = tz_offset
             /\ view'.op = "get_tracks" =>
                  outcome = GetTracks(alone, tz_offset, view'.flag, view'.debug)
             /\ view'.op = "get_playlists" =>
                  outcome = GetPlaylists(alone, tz_offset, view'.debug)
             /\ view'.op = "get_library_location" =>
                  outcome = GetLibraryLocation(alone, view'.flag, view'.debug)]_vars

\* a view operation returned on a parsed library that holds two sections of
\* the type it asks for, with different contents
C27_Witness ==
  /\ pc = "done"
  /\ view.op \in {"get_tracks", "get_playlists", "get_library_location"}
  /\ view.raised = ""
  /\ Len(sections) = 2
  /\ sections[1].section_type.value = ViewSectionType(view.op)
  /\ sections[2].section_type.value = ViewSectionType(view.op)
  /\ sections[1].sub_section # sections[2].sub_section
====
